---- MODULE Spec2Model ----
(***************************************************************************)
(* Model of the scan-ingestion core of the security findings tracker:      *)
(*   app/components/data_processor.py  (reconciliation of one scan)        *)
(*   app/database/schema.py            (SQLite tables and statements)      *)
(*                                                                         *)
(* The SQLite database is modelled twice: `store` is the committed         *)
(* database file, `conn` is what the ingesting connection sees (committed  *)
(* data plus its own uncommitted statements).  conn.commit() copies conn   *)
(* into store; conn.close() without commit discards the difference.        *)
(*                                                                         *)
(* Tables with an AUTOINCREMENT id are sequences, the id being the index.  *)
(* Dates are day numbers (1 = 2024-01-01, 32 = 2024-02-01, 61 = 2024-03-01)*)
(* and a due date is a day number as well.  Text is a sequence of tokens:  *)
(* "LF" is the line break, " " is a blank, any other token is a run of     *)
(* non-blank characters.                                                   *)
(***************************************************************************)
EXTENDS Integers, Sequences, FiniteSets, TLC

VARIABLES
    store,                        \* committed database
    conn,                         \* database as seen by the open connection
    pc,                           \* position of the running upload
    caller,                       \* "single" or "batch": the upload in progress, "none" when idle
    columns,                      \* df.columns of the uploaded file and the column_name_map in force
    analysis_date,                \* process_upload_dataframe: analysis_date
    scan_id,                      \* process_upload_dataframe: scan_id
    rows_left,                    \* rows of df not yet iterated
    active_remediation_ids,       \* process_upload_dataframe: active_remediation_ids
    remediations_needing_issues,  \* dict (benchmark_id, due_date) -> [ids], items not yet iterated
    new_count,
    existing_count,
    sorted_dates,                 \* process_multiple_scan_upload: dates not yet iterated
    results,                      \* process_multiple_scan_upload: results
    result,                       \* outcome of the most recent call
    events,                       \* uploads of one scan, rows and storage failures so far
    pre,                          \* history: store when the running ingestion began
    hscan,                        \* history: id and date of the scan of that ingestion
    seen,                         \* history: (benchmark, failure, cvss, level) entries read by the running ingestion
    nonblank,                     \* history: how many non-blank failure entries its rows held, repeats counted
    hupload,                      \* history: the rows read by the running upload, and the upload completed just before it
    hbatch,                       \* history: the dates of the batch upload, and those that had a Scan at the call
    scen,                         \* history: how far the run follows Scenario
    call,                         \* a call of get_cvss_range or calculate_due_date: arguments and outcome
    ingestion,                    \* the uploads that run at the same time, each on its own connection
    lock,                         \* the connection that holds the write lock of the database file, 0 when free
    file                          \* the dataframe of the batch upload when its rows are drawn at the call, and the store at the call

vars == <<store, conn, pc, caller, columns, analysis_date, scan_id, rows_left,
          active_remediation_ids, remediations_needing_issues, new_count,
          existing_count, sorted_dates, results, result, events,
          pre, hscan, seen, nonblank, hupload, hbatch, scen, call, ingestion, lock, file>>

----------------------------------------------------------------------------
(* Bounds *)

\* size of the input of one behaviour: scans uploaded + rows uploaded + storage failures
MaxEvents == 6

NULL == 0           \* SQL NULL in an integer or date column

----------------------------------------------------------------------------
(* Input values *)

Num(v) == [t |-> "float", v |-> v]      \* CVSS cell holding v/10
NaN == [t |-> "nan", v |-> 0]           \* empty cell as read by pandas
Text == [t |-> "str", v |-> 0]          \* cell holding non-numeric text
NumText(v) == [t |-> "numstr", v |-> v] \* cell holding the text of the number v/10
EmptyText == [t |-> "empty", v |-> 0]   \* the empty string
None == [t |-> "none", v |-> 0]         \* Python None

\* the values get_cvss_range and calculate_due_date are called with
MaxCvss == 101
CvssValues ==
    {Num(v) : v \in 0..MaxCvss} \cup {NumText(v) : v \in {0, 39, 40, 69, 70, 89, 90}}
        \cup {NaN, Text, EmptyText, None}

Dates == {1, 32}

Str(s) == [nan |-> FALSE, s |-> s]
NaNCell == [nan |-> TRUE, s |-> <<>>]

B1 == [benchmark |-> "CIS", finding_id |-> "1.1"]
B2 == [benchmark |-> "CIS", finding_id |-> "1.2"]

\* a row of the file; level stands for the descriptive columns (level, title, description,
\* rationale, refs), which the code passes through alike
RowL(key, level, cvss, failures) ==
    [key |-> key, level |-> level, cvss |-> cvss, failures |-> failures]

Row(key, cvss, failures) == RowL(key, "Level 1", cvss, failures)

\* the rows an uploaded dataframe is made of
Rows ==
    { Row(B1, Num(95), Str(<<"host-1", "LF", "host-2">>)),
      RowL(B1, "Level 2", Num(50), Str(<<"host-2">>)),
      Row(B1, Num(50), NaNCell),
      Row(B2, NaN,     Str(<<" ", "host-1", " ", "LF", " ", "LF", "host-1">>)),
      Row(B2, Text,    Str(<<"host-1">>)) }

\* the rows and dates of the scenario of the specification
ScenarioRows ==
    { Row(B1, Num(95), Str(<<"host-1", "LF", "host-2">>)),
      Row(B1, Num(95), Str(<<"host-1">>)),
      Row(B1, Num(95), NaNCell) }

ScenarioDates == {1, 32, 61}

\* the cells of the Date column of a batch file: the dates of Dates as month/day/year
DateCells == {"01/01/2024", "02/01/2024"}

\* the same with a second spelling of 2024-01-01 that '%m/%d/%Y' parses as well
SpelledDateCells == {"01/01/2024", "1/1/2024", "02/01/2024"}

\* the rows of the batch files whose rows are drawn at the call
BatchRows ==
    { Row(B1, Num(95), Str(<<"host-1", "LF", "host-2">>)),
      RowL(B1, "Level 2", Num(50), Str(<<"host-2">>)) }

\* the rows of the files whose headers vary
ColumnRows ==
    { Row(B1, Num(95), Str(<<"host-1">>)),
      Row(B2, Text,    Str(<<"host-1">>)) }

\* column names of a single-scan file and of a batch file
SingleNames ==
    {"benchmark", "id", "level", "cvss", "title", "failures", "description", "rationale", "refs"}

BatchNames ==
    {"Date", "Benchmark", "CIS_ID", "Level", "CVSS", "Title", "Failures", "Description",
     "Rationale", "References"}

\* the headers an uploaded file comes with
ColumnSets ==
    { SingleNames,
      BatchNames,
      SingleNames \ {"cvss"},
      BatchNames \ {"Failures", "References"},
      BatchNames \ {"Date"} }

----------------------------------------------------------------------------
(* Text helpers *)

Whitespace == {" ", "LF"}

\* str(x) of a cell: pandas hands an empty cell over as NaN, and str(NaN) = 'nan'
str(cell) == IF cell.nan THEN <<"nan">> ELSE cell.s

RECURSIVE split(_, _)
split(s, sep) ==
    IF \A i \in 1..Len(s) : s[i] # sep
    THEN <<s>>
    ELSE LET k == CHOOSE i \in 1..Len(s) : s[i] = sep /\ \A j \in 1..(i-1) : s[j] # sep
         IN  <<SubSeq(s, 1, k-1)>> \o split(SubSeq(s, k+1, Len(s)), sep)

RECURSIVE lstrip(_)
lstrip(s) == IF s # <<>> /\ Head(s) \in Whitespace THEN lstrip(Tail(s)) ELSE s

RECURSIVE rstrip(_)
rstrip(s) == IF s # <<>> /\ s[Len(s)] \in Whitespace THEN rstrip(SubSeq(s, 1, Len(s)-1)) ELSE s

\* variant: lstrip() instead of strip()
strip_leading(s) == lstrip(s)

\* failure.strip()
strip(s) == rstrip(lstrip(s))

----------------------------------------------------------------------------
(* Severity policy *)

\* the exception float(cvss) raises, "" when it returns
float_error(cvss) ==
    CASE cvss.t \in {"str", "empty"} -> "ValueError"
      [] cvss.t = "none" -> "TypeError"
      [] OTHER -> ""

float_raises(cvss) == float_error(cvss) # ""

\* `not cvss`
falsy(cvss) == cvss.t \in {"empty", "none"} \/ (cvss.t = "float" /\ cvss.v = 0)

\* variant: except ValueError only
caught_value_error == {"ValueError"}

\* except (ValueError, TypeError)
caught == {"ValueError", "TypeError"}

\* the exception that leaves get_cvss_range, "" when it returns
get_cvss_range_error(cvss) == IF float_error(cvss) \in caught THEN "" ELSE float_error(cvss)

\* variant: strict comparisons at the thresholds
get_cvss_range_strict(cvss) ==
    IF float_raises(cvss) THEN (IF falsy(cvss) THEN "Info" ELSE "Unknown")
    ELSE IF cvss.t = "nan" THEN "Info"
    ELSE IF cvss.v > 90 THEN "Critical"
    ELSE IF cvss.v > 70 THEN "High"
    ELSE IF cvss.v > 40 THEN "Medium"
    ELSE IF cvss.v > 0 THEN "Low"
    ELSE "Info"

get_cvss_range(cvss) ==
    IF float_raises(cvss) THEN (IF falsy(cvss) THEN "Info" ELSE "Unknown")   \* except branch
    ELSE IF cvss.t = "nan" THEN "Info"             \* every comparison with nan is False
    ELSE IF cvss.v >= 90 THEN "Critical"
    ELSE IF cvss.v >= 70 THEN "High"
    ELSE IF cvss.v >= 40 THEN "Medium"
    ELSE IF cvss.v > 0 THEN "Low"
    ELSE "Info"

\* variant: the default of .get() taken from the Medium window
severity_mapping_default_90(band) ==
    CASE band = "Critical" -> 15
      [] band = "High" -> 30
      [] band = "Medium" -> 90
      [] band = "Low" -> 180
      [] band = "Info" -> 180
      [] OTHER -> 90

severity_mapping(band) ==
    CASE band = "Critical" -> 15
      [] band = "High" -> 30
      [] band = "Medium" -> 90
      [] band = "Low" -> 180
      [] band = "Info" -> 180
      [] OTHER -> 180

calculate_due_date(cvss, date) == date + severity_mapping(get_cvss_range(cvss))

----------------------------------------------------------------------------
(* Column validation *)

required_columns ==
    <<"benchmark", "id", "level", "cvss", "title", "failures", "description", "rationale", "refs">>

\* column_name_map of process_multiple_scan_upload
column_name_map ==
    [col \in SingleNames |->
        CASE col = "benchmark" -> "Benchmark"
          [] col = "id" -> "CIS_ID"
          [] col = "level" -> "Level"
          [] col = "cvss" -> "CVSS"
          [] col = "title" -> "Title"
          [] col = "failures" -> "Failures"
          [] col = "description" -> "Description"
          [] col = "rationale" -> "Rationale"
          [] col = "refs" -> "References"]

\* { x: x for x in required_columns }, used when no map is passed
default_column_name_map == [col \in SingleNames |-> col]

\* the map a call works with: "batch" when the caller passes column_name_map, "default" when not
map_of(which) == IF which = "batch" THEN column_name_map ELSE default_column_name_map

\* variant: the required names looked up in df.columns without the map
missing_cols_unmapped(df_columns, which) ==
    LET absent(col) == col \notin df_columns
    IN  SelectSeq(required_columns, absent)

\* [column_name_map.get(col) for col in required_columns if column_name_map.get(col) not in df.columns]
missing_cols(df_columns, which) ==
    LET names == [k \in 1..Len(required_columns) |-> map_of(which)[required_columns[k]]]
        absent(name) == name \notin df_columns
    IN  SelectSeq(names, absent)

----------------------------------------------------------------------------
(* Database statements; each takes the connection's view db *)

EmptyDB ==
    [benchmark |-> <<>>, findings |-> <<>>, scans |-> <<>>, remediations |-> <<>>,
     remediation_findings |-> {}, issues |-> <<>>, issue_remediations |-> {}]

Ids(table) == 1..Len(table)

\* variant: ON CONFLICT DO UPDATE instead of OR IGNORE
get_or_create_benchmark_upsert(db, data) ==
    LET hit(d) == {i \in Ids(d.benchmark) :
                      /\ d.benchmark[i].benchmark = data.benchmark
                      /\ d.benchmark[i].finding_id = data.finding_id}
        db1 == IF hit(db) = {}
               THEN [db EXCEPT !.benchmark = Append(@, data)]
               ELSE [db EXCEPT !.benchmark = [i \in Ids(@) |-> IF i \in hit(db) THEN data ELSE @[i]]]
    IN  [db |-> db1, id |-> CHOOSE i \in hit(db1) : TRUE]

get_or_create_benchmark(db, data) ==
    LET hit(d) == {i \in Ids(d.benchmark) :
                      /\ d.benchmark[i].benchmark = data.benchmark
                      /\ d.benchmark[i].finding_id = data.finding_id}
        db1 == IF hit(db) = {} THEN [db EXCEPT !.benchmark = Append(@, data)] ELSE db
    IN  [db |-> db1, id |-> CHOOSE i \in hit(db1) : TRUE]

\* variant: the INSERT without OR IGNORE on a table without its UNIQUE constraint
get_or_create_scan_insert(db, scan_date) ==
    LET hit(d) == {i \in Ids(d.scans) : d.scans[i].scan_date = scan_date}
        db1 == [db EXCEPT !.scans = Append(@, [scan_date |-> scan_date])]
    IN  [db |-> db1, id |-> CHOOSE i \in hit(db1) : \A j \in hit(db1) : i <= j]

get_or_create_scan(db, scan_date) ==
    LET hit(d) == {i \in Ids(d.scans) : d.scans[i].scan_date = scan_date}
        db1 == IF hit(db) = {} THEN [db EXCEPT !.scans = Append(@, [scan_date |-> scan_date])] ELSE db
    IN  [db |-> db1, id |-> CHOOSE i \in hit(db1) : TRUE]

\* variant: the INSERT without OR IGNORE on a table without its UNIQUE constraint
insert_finding_again(db, benchmark_id, failure) ==
    LET db1 == [db EXCEPT !.findings = Append(@, [benchmark_id |-> benchmark_id, failure |-> failure])]
    IN  [db |-> db1, id |-> Len(db1.findings)]

insert_finding(db, benchmark_id, failure) ==
    LET hit(d) == {i \in Ids(d.findings) :
                      /\ d.findings[i].benchmark_id = benchmark_id
                      /\ d.findings[i].failure = failure}
        db1 == IF hit(db) = {}
               THEN [db EXCEPT !.findings = Append(@, [benchmark_id |-> benchmark_id, failure |-> failure])]
               ELSE db
    IN  [db |-> db1, id |-> CHOOSE i \in hit(db1) : TRUE]

\* variant: the INSERT without its first_seen_scan column
create_remediation_unscanned(db, benchmark_id, scan, due_date) ==
    LET db1 == [db EXCEPT !.remediations =
                   Append(@, [benchmark_id |-> benchmark_id, first_seen_scan |-> NULL,
                              resolved_in_scan |-> NULL, state |-> "open", due_date |-> due_date])]
    IN  [db |-> db1, id |-> Len(db1.remediations)]

create_remediation(db, benchmark_id, scan, due_date) ==
    LET db1 == [db EXCEPT !.remediations =
                   Append(@, [benchmark_id |-> benchmark_id, first_seen_scan |-> scan,
                              resolved_in_scan |-> NULL, state |-> "open", due_date |-> due_date])]
    IN  [db |-> db1, id |-> Len(db1.remediations)]

\* variant: the link is put on the remediation that was created before this one as well
link_finding_to_remediation_and_previous(db, remediation_id, finding_id) ==
    [db EXCEPT !.remediation_findings =
        @ \cup {<<remediation_id, finding_id>>}
          \cup {<<r, finding_id>> : r \in {q \in Ids(db.remediations) : q = remediation_id - 1}}]

link_finding_to_remediation(db, remediation_id, finding_id) ==
    [db EXCEPT !.remediation_findings = @ \cup {<<remediation_id, finding_id>>}]

\* variant: `is None` instead of `is not None`
check_if_scan_exists_negated(db, scan_date) ==
    ~ \E i \in Ids(db.scans) : db.scans[i].scan_date = scan_date

check_if_scan_exists(db, scan_date) ==
    \E i \in Ids(db.scans) : db.scans[i].scan_date = scan_date

\* variant: the two query parameters bound in the wrong order
existing_remediation_swapped(db, benchmark_id, finding_id) ==
    {r \in Ids(db.remediations) :
        /\ db.remediations[r].benchmark_id = finding_id
        /\ db.remediations[r].state = "open"
        /\ <<r, benchmark_id>> \in db.remediation_findings}

\* variant: the query without its state filter
existing_remediation_any_state(db, benchmark_id, finding_id) ==
    {r \in Ids(db.remediations) :
        /\ db.remediations[r].benchmark_id = benchmark_id
        /\ <<r, finding_id>> \in db.remediation_findings}

\* the SELECT of process_upload_dataframe: open remediations of the benchmark linked to the finding
existing_remediation(db, benchmark_id, finding_id) ==
    {r \in Ids(db.remediations) :
        /\ db.remediations[r].benchmark_id = benchmark_id
        /\ db.remediations[r].state = "open"
        /\ <<r, finding_id>> \in db.remediation_findings}

\* variant: IN instead of NOT IN
mark_remediations_resolved_if_in_list(db, scan, active) ==
    [db EXCEPT !.remediations =
        [r \in Ids(@) |-> IF @[r].state = "open" /\ r \in active
                          THEN [@[r] EXCEPT !.state = "resolved", !.resolved_in_scan = scan]
                          ELSE @[r]]]

\* variant: the UPDATE of the first branch used in both branches
mark_remediations_resolved_unstamped(db, scan, active) ==
    [db EXCEPT !.remediations =
        [r \in Ids(@) |-> IF @[r].state = "open" /\ r \notin active
                          THEN [@[r] EXCEPT !.state = "resolved"]
                          ELSE @[r]]]

\* variant: the UPDATE of the second branch without its state = 'open' condition
mark_remediations_resolved_restamped(db, scan, active) ==
    IF active = {}
    THEN [db EXCEPT !.remediations =
             [r \in Ids(@) |-> IF @[r].state = "open"
                               THEN [@[r] EXCEPT !.state = "resolved"]
                               ELSE @[r]]]
    ELSE [db EXCEPT !.remediations =
             [r \in Ids(@) |-> IF r \notin active
                               THEN [@[r] EXCEPT !.state = "resolved", !.resolved_in_scan = scan]
                               ELSE @[r]]]

mark_remediations_resolved_if_not_in_list(db, scan, active) ==
    IF active = {}
    THEN [db EXCEPT !.remediations =
             [r \in Ids(@) |-> IF @[r].state = "open"
                               THEN [@[r] EXCEPT !.state = "resolved"]
                               ELSE @[r]]]
    ELSE [db EXCEPT !.remediations =
             [r \in Ids(@) |-> IF @[r].state = "open" /\ r \notin active
                               THEN [@[r] EXCEPT !.state = "resolved", !.resolved_in_scan = scan]
                               ELSE @[r]]]

\* variant: the SELECT without its NOT EXISTS condition
mark_issues_as_resolved_all_open(db, resolved_date) ==
    LET issue_ids == {i \in Ids(db.issues) : db.issues[i].status = "open"}
    IN  [db EXCEPT !.issues =
            [i \in Ids(@) |-> IF i \in issue_ids
                              THEN [@[i] EXCEPT !.status = "resolved", !.resolved_at = resolved_date]
                              ELSE @[i]]]

mark_issues_as_resolved_if_no_open_remediations(db, resolved_date) ==
    LET issue_ids == {i \in Ids(db.issues) :
                         /\ db.issues[i].status = "open"
                         /\ ~ \E r \in Ids(db.remediations) :
                                 /\ db.remediations[r].state = "open"
                                 /\ <<i, r>> \in db.issue_remediations}
    IN  [db EXCEPT !.issues =
            [i \in Ids(@) |-> IF i \in issue_ids
                              THEN [@[i] EXCEPT !.status = "resolved", !.resolved_at = resolved_date]
                              ELSE @[i]]]

create_issue_for_remediations(db, remediation_ids, benchmark_id, created_at, due_date) ==
    LET db1 == [db EXCEPT !.issues =
                   Append(@, [benchmark_id |-> benchmark_id, due_date |-> due_date,
                              created_at |-> created_at, status |-> "open", resolved_at |-> NULL])]
        issue_id == Len(db1.issues)
    IN  [db1 EXCEPT !.issue_remediations =
            @ \cup {<<issue_id, remediation_ids[k]>> : k \in 1..Len(remediation_ids)}]

----------------------------------------------------------------------------
(* process_upload_dataframe, the body of the row loop *)

\* float(row['cvss']) if row['cvss'] else None, as the REAL column stores it
stored_cvss(cvss) ==
    IF cvss.t = "float" /\ cvss.v # 0 THEN cvss ELSE [t |-> "null", v |-> 0]

benchmark_data(row) ==
    [benchmark |-> row.key.benchmark, finding_id |-> row.key.finding_id, level |-> row.level,
     cvss |-> stored_cvss(row.cvss)]

\* building benchmark_data raises when the cell is truthy and float() rejects it
row_raises(row) == ~ falsy(row.cvss) /\ float_raises(row.cvss)

\* variant: the dict keyed by benchmark_id alone
needing_append_by_benchmark(needing, benchmark_id, due_date, remediation_id) ==
    LET hit == {k \in 1..Len(needing) : needing[k].benchmark_id = benchmark_id}
    IN  IF hit = {}
        THEN Append(needing, [benchmark_id |-> benchmark_id, due_date |-> due_date,
                              remediation_ids |-> <<remediation_id>>])
        ELSE [k \in 1..Len(needing) |->
                 IF k \in hit
                 THEN [needing[k] EXCEPT !.remediation_ids = Append(@, remediation_id)]
                 ELSE needing[k]]

\* remediations_needing_issues[(benchmark_id, due_date)].append(remediation_id), keeping insertion order
needing_append(needing, benchmark_id, due_date, remediation_id) ==
    LET hit == {k \in 1..Len(needing) :
                   needing[k].benchmark_id = benchmark_id /\ needing[k].due_date = due_date}
    IN  IF hit = {}
        THEN Append(needing, [benchmark_id |-> benchmark_id, due_date |-> due_date,
                              remediation_ids |-> <<remediation_id>>])
        ELSE [k \in 1..Len(needing) |->
                 IF k \in hit
                 THEN [needing[k] EXCEPT !.remediation_ids = Append(@, remediation_id)]
                 ELSE needing[k]]

\* variant: a remediation that is seen again gets its due date recomputed
process_failure_recalc(st, failure, benchmark_id, cvss, date, scan) ==
    LET f == insert_finding(st.db, benchmark_id, failure)
        existing == existing_remediation(f.db, benchmark_id, f.id)
        due_date == calculate_due_date(cvss, date)
    IN  IF existing # {}
        THEN LET e == CHOOSE r \in existing : \A q \in existing : r <= q
             IN  [st EXCEPT !.db = [f.db EXCEPT !.remediations[e].due_date = due_date],
                            !.active = @ \cup {e},
                            !.existing = @ + 1]
        ELSE LET r == create_remediation(f.db, benchmark_id, scan, due_date)
                 db2 == link_finding_to_remediation(r.db, r.id, f.id)
             IN  [db |-> db2,
                  active |-> st.active \cup {r.id},
                  needing |-> needing_append(st.needing, benchmark_id, due_date, r.id),
                  new |-> st.new + 1,
                  existing |-> st.existing]

\* variant: a finding that recurs re-opens its resolved remediation
process_failure_reopen(st, failure, benchmark_id, cvss, date, scan) ==
    LET f == insert_finding(st.db, benchmark_id, failure)
        existing == existing_remediation(f.db, benchmark_id, f.id)
        old == {r \in Ids(f.db.remediations) :
                   /\ f.db.remediations[r].benchmark_id = benchmark_id
                   /\ <<r, f.id>> \in f.db.remediation_findings}
    IN  IF existing # {}
        THEN [st EXCEPT !.db = f.db,
                        !.active = @ \cup {CHOOSE r \in existing : \A q \in existing : r <= q},
                        !.existing = @ + 1]
        ELSE IF old # {}
        THEN LET e == CHOOSE r \in old : \A q \in old : r <= q
             IN  [st EXCEPT !.db = [f.db EXCEPT !.remediations[e].state = "open"],
                            !.active = @ \cup {e},
                            !.existing = @ + 1]
        ELSE LET due_date == calculate_due_date(cvss, date)
                 r == create_remediation(f.db, benchmark_id, scan, due_date)
                 db2 == link_finding_to_remediation(r.db, r.id, f.id)
             IN  [db |-> db2,
                  active |-> st.active \cup {r.id},
                  needing |-> needing_append(st.needing, benchmark_id, due_date, r.id),
                  new |-> st.new + 1,
                  existing |-> st.existing]

\* variant: a remediation that is seen again is recorded for issue-grouping as well
process_failure_regroup(st, failure, benchmark_id, cvss, date, scan) ==
    LET f == insert_finding(st.db, benchmark_id, failure)
        existing == existing_remediation(f.db, benchmark_id, f.id)
        due_date == calculate_due_date(cvss, date)
    IN  IF existing # {}
        THEN LET e == CHOOSE r \in existing : \A q \in existing : r <= q
             IN  [st EXCEPT !.db = f.db,
                            !.active = @ \cup {e},
                            !.needing = needing_append(@, benchmark_id, due_date, e),
                            !.existing = @ + 1]
        ELSE LET r == create_remediation(f.db, benchmark_id, scan, due_date)
                 db2 == link_finding_to_remediation(r.db, r.id, f.id)
             IN  [db |-> db2,
                  active |-> st.active \cup {r.id},
                  needing |-> needing_append(st.needing, benchmark_id, due_date, r.id),
                  new |-> st.new + 1,
                  existing |-> st.existing]

\* One non-blank failure of a row.  st = [db, active, needing, new, existing]: the
\* connection and the locals active_remediation_ids, remediations_needing_issues,
\* new_count, existing_count.
process_failure(st, failure, benchmark_id, cvss, date, scan) ==
    LET f == insert_finding(st.db, benchmark_id, failure)
        existing == existing_remediation(f.db, benchmark_id, f.id)
    IN  IF existing # {}
        THEN [st EXCEPT !.db = f.db,
                        !.active = @ \cup {CHOOSE r \in existing : \A q \in existing : r <= q},
                        !.existing = @ + 1]
        ELSE LET due_date == calculate_due_date(cvss, date)
                 r == create_remediation(f.db, benchmark_id, scan, due_date)
                 db2 == link_finding_to_remediation(r.db, r.id, f.id)
             IN  [db |-> db2,
                  active |-> st.active \cup {r.id},
                  needing |-> needing_append(st.needing, benchmark_id, due_date, r.id),
                  new |-> st.new + 1,
                  existing |-> st.existing]

RECURSIVE process_failures(_, _, _, _, _, _)
process_failures(st, failures, benchmark_id, cvss, date, scan) ==
    IF failures = <<>> THEN st
    ELSE LET failure == strip(Head(failures))
         IN  IF failure = <<>>
             THEN process_failures(st, Tail(failures), benchmark_id, cvss, date, scan)
             ELSE process_failures(process_failure(st, failure, benchmark_id, cvss, date, scan),
                                   Tail(failures), benchmark_id, cvss, date, scan)

process_row(st, row, date, scan) ==
    LET b == get_or_create_benchmark(st.db, benchmark_data(row))
        failures == split(str(row.failures), "LF")
    IN  process_failures([st EXCEPT !.db = b.db], failures, b.id, row.cvss, date, scan)

\* history: how many entries of the failures field of a row are not blank after trimming;
\* a field that is empty has none
nonblank_entries(row) ==
    IF row.failures.nan THEN 0
    ELSE Cardinality({k \in DOMAIN split(row.failures.s, "LF") :
                         strip(split(row.failures.s, "LF")[k]) # <<>>})

\* history: the non-blank failure entries of a row, with the row's benchmark and cvss
entries(row) ==
    LET failures == split(str(row.failures), "LF")
    IN  {[key |-> row.key, failure |-> strip(failures[k]), cvss |-> row.cvss, level |-> row.level] :
            k \in {j \in 1..Len(failures) : strip(failures[j]) # <<>>}}

----------------------------------------------------------------------------
(* process_multiple_scan_upload helpers *)

RECURSIVE unique(_)
unique(s) ==
    IF s = <<>> THEN <<>>
    ELSE LET init == unique(SubSeq(s, 1, Len(s)-1))
         IN  IF \E i \in 1..Len(init) : init[i] = s[Len(s)] THEN init ELSE Append(init, s[Len(s)])

\* datetime.strptime(x, '%m/%d/%Y') of a cell of the Date column, as a day number; %m and
\* %d accept a month and a day with or without a leading zero
strptime(x) ==
    CASE x = "01/01/2024" -> 1
      [] x = "1/1/2024"   -> 1
      [] x = "02/01/2024" -> 32
      [] x = "03/01/2024" -> 61

\* sorted(s, key=lambda x: datetime.strptime(x, '%m/%d/%Y')): ascending by date, dates
\* with equal keys in the order they have in s
RECURSIVE sorted(_)
sorted(s) ==
    IF s = <<>> THEN <<>>
    ELSE LET m == CHOOSE i \in 1..Len(s) :
                     /\ \A j \in 1..Len(s) : strptime(s[i]) <= strptime(s[j])
                     /\ \A j \in 1..(i-1) : strptime(s[j]) # strptime(s[i])
         IN  <<s[m]>> \o sorted(SubSeq(s, 1, m-1) \o SubSeq(s, m+1, Len(s)))

\* date_df = df[df['Date'] == date]: the rows of the file whose Date cell is the string date
date_df(df, date) == SelectSeq(df, LAMBDA r : r.Date = date)

count_rows(date_col, date) == Cardinality({i \in 1..Len(date_col) : date_col[i] = date})

----------------------------------------------------------------------------
(* The scenario of the specification, followed by the history variable scen *)

Scenario ==
    << [date |-> 1,  rows |-> << Row(B1, Num(95), Str(<<"host-1", "LF", "host-2">>)) >>],
       [date |-> 32, rows |-> << Row(B1, Num(95), Str(<<"host-1">>)) >>] >>

\* scan C of the scenario: any upload for 2024-03-01 whose rows report no failure
ScanCDate == 61

Off == [on |-> FALSE, k |-> 0, r |-> 0]

scen_begin(date, n) ==
    IF /\ scen.on
       /\ scen.k < Len(Scenario)
       /\ Scenario[scen.k + 1].date = date
       /\ Len(Scenario[scen.k + 1].rows) = n
    THEN [scen EXCEPT !.r = 0]
    ELSE IF scen.on /\ scen.k = Len(Scenario) /\ date = ScanCDate
    THEN [scen EXCEPT !.r = 0]
    ELSE Off

scen_row(row) ==
    IF scen.on /\ scen.k < Len(Scenario)
    THEN IF Scenario[scen.k + 1].rows[scen.r + 1] = row THEN [scen EXCEPT !.r = @ + 1] ELSE Off
    ELSE IF scen.on /\ scen.k = Len(Scenario) /\ row.failures.nan
    THEN [scen EXCEPT !.r = @ + 1]
    ELSE Off

scen_finish == IF scen.on THEN [scen EXCEPT !.k = @ + 1, !.r = 0] ELSE Off

----------------------------------------------------------------------------
(* State machine *)

NoCall == [fn |-> "", cvss |-> None, analysis_date |-> NULL, state |-> "none", ret |-> NULL]

NoBatch == [on |-> FALSE, dates |-> {}, existing |-> {}]

\* the rows of no batch file are on record
NoFile == [df |-> <<>>, before |-> EmptyDB]

\* no single-scan upload has completed just before, none is running
NoUpload == [last |-> [date |-> NULL, rows |-> {}], rows |-> {}, again |-> FALSE]

\* history: the rows of a file as pairs (row, number of times the file holds it), with
\* one more row
with_row(rows, row) ==
    IF \E x \in rows : x[1] = row
    THEN {IF x[1] = row THEN <<row, x[2] + 1>> ELSE x : x \in rows}
    ELSE rows \cup {<<row, 1>>}

\* what a call returned or raised
NoResult == [status |-> "none", new |-> 0, existing |-> 0, resolved |-> 0,
             error |-> "", missing |-> <<>>]

Error(type) == [status |-> "error", new |-> 0, existing |-> 0, resolved |-> 0,
                error |-> type, missing |-> <<>>]

\* ValueError(f"Missing required columns: {', '.join(missing_cols)}")
MissingColumns(missing) == [Error("ValueError: Missing required columns") EXCEPT !.missing = missing]

Init ==
    /\ store = EmptyDB
    /\ conn = EmptyDB
    /\ pc = "idle"
    /\ caller = "none"
    /\ columns = [names |-> {}, map |-> "default"]
    /\ analysis_date = NULL
    /\ scan_id = NULL
    /\ rows_left = 0
    /\ active_remediation_ids = {}
    /\ remediations_needing_issues = <<>>
    /\ new_count = 0
    /\ existing_count = 0
    /\ sorted_dates = <<>>
    /\ results = NoResult
    /\ result = NoResult
    /\ events = 0
    /\ pre = EmptyDB
    /\ hscan = [id |-> NULL, date |-> NULL]
    /\ seen = {}
    /\ nonblank = 0
    /\ hupload = NoUpload
    /\ hbatch = NoBatch
    /\ scen = [on |-> TRUE, k |-> 0, r |-> 0]
    /\ call = NoCall
    /\ ingestion = <<>>
    /\ lock = 0
    /\ file = NoFile

\* process_upload_dataframe up to the row loop: the columns are there, open the connection,
\* get or create the scan
Begin(date, n, who, df_columns, map) ==
    LET s == get_or_create_scan(store, date) IN
    /\ missing_cols(df_columns, map) = <<>>
    /\ columns' = [names |-> df_columns, map |-> map]
    /\ conn' = s.db
    /\ scan_id' = s.id
    /\ analysis_date' = date
    /\ rows_left' = n
    /\ active_remediation_ids' = {}
    /\ remediations_needing_issues' = <<>>
    /\ new_count' = 0
    /\ existing_count' = 0
    /\ caller' = who
    /\ pc' = IF n > 0 THEN "rows" ELSE "issues"
    /\ pre' = store
    /\ hscan' = [id |-> s.id, date |-> date]
    /\ seen' = {}
    /\ nonblank' = 0
    /\ result' = NoResult
    /\ UNCHANGED store

\* process_single_scan_upload(file, analysis_date)
SingleScanUpload(DS, CS) ==
    /\ UNCHANGED <<call, ingestion, lock, file>>
    /\ hupload' = [hupload EXCEPT !.rows = {}, !.again = FALSE]
    /\ pc = "idle"
    /\ \E date \in DS, n \in 0..(MaxEvents - events - 1), df_columns \in CS :
          /\ Begin(date, n, "single", df_columns, "default")
          /\ events' = events + 1 + n
          /\ scen' = scen_begin(date, n)
    /\ hbatch' = NoBatch
    /\ UNCHANGED <<sorted_dates, results>>

\* the locals of process_upload_dataframe after it has returned or raised
LocalsGone ==
    /\ analysis_date' = NULL
    /\ scan_id' = NULL
    /\ rows_left' = 0
    /\ active_remediation_ids' = {}
    /\ remediations_needing_issues' = <<>>
    /\ new_count' = 0
    /\ existing_count' = 0

\* the exception leaves process_upload_dataframe: finally conn.close() drops what is not committed
Raise(error) ==
    /\ conn' = store
    /\ hupload' = NoUpload
    /\ pc' = "idle"
    /\ result' = error
    /\ sorted_dates' = <<>>
    /\ results' = NoResult
    /\ scen' = Off
    /\ caller' = "none"
    /\ seen' = {}
    /\ nonblank' = 0
    /\ LocalsGone
    /\ UNCHANGED <<store, columns, pre, hscan, hbatch>>

\* process_upload_dataframe raises at its column validation: nothing was opened or written
Invalid(df_columns, map) ==
    /\ missing_cols(df_columns, map) # <<>>
    /\ hupload' = NoUpload
    /\ result' = MissingColumns(missing_cols(df_columns, map))
    /\ columns' = [names |-> df_columns, map |-> map]
    /\ pc' = "idle"
    /\ caller' = "none"
    /\ sorted_dates' = <<>>
    /\ results' = NoResult
    /\ scen' = Off
    /\ seen' = {}
    /\ nonblank' = 0
    /\ pre' = store
    /\ hscan' = [id |-> NULL, date |-> NULL]
    /\ LocalsGone
    /\ UNCHANGED <<store, conn>>

\* process_single_scan_upload(file, analysis_date) with a file that lacks a required column
SingleInvalid(CS) ==
    /\ UNCHANGED <<call, ingestion, lock, file>>
    /\ pc = "idle"
    /\ \E df_columns \in CS : Invalid(df_columns, "default")
    /\ hbatch' = NoBatch
    /\ UNCHANGED events

\* one iteration of `for _, row in df.iterrows()`
ProcessRow(RS) ==
    /\ UNCHANGED <<call, ingestion, lock, file>>
    /\ pc = "rows"
    /\ \E row \in RS :
          IF row_raises(row)
          THEN Raise(Error("ValueError: could not convert string to float")) /\ UNCHANGED events
          ELSE LET st == process_row([db |-> conn, active |-> active_remediation_ids,
                                      needing |-> remediations_needing_issues,
                                      new |-> new_count, existing |-> existing_count],
                                     row, analysis_date, scan_id)
               IN  /\ conn' = st.db
                   /\ active_remediation_ids' = st.active
                   /\ remediations_needing_issues' = st.needing
                   /\ new_count' = st.new
                   /\ existing_count' = st.existing
                   /\ rows_left' = rows_left - 1
                   /\ pc' = IF rows_left = 1 THEN "issues" ELSE "rows"
                   /\ seen' = seen \cup entries(row)
                   /\ nonblank' = nonblank + nonblank_entries(row)
                   /\ hupload' = [hupload EXCEPT !.rows = with_row(@, row)]
                   /\ scen' = scen_row(row)
                   /\ UNCHANGED <<store, caller, analysis_date, scan_id, sorted_dates,
                                  results, result, events, columns, pre, hscan, hbatch>>

\* one iteration of `for ... in remediations_needing_issues.items()`; the callee commits
CreateIssue ==
    /\ UNCHANGED <<call, ingestion, lock, file>>
    /\ UNCHANGED hupload
    /\ pc = "issues"
    /\ remediations_needing_issues # <<>>
    /\ LET g == Head(remediations_needing_issues)
           db == create_issue_for_remediations(conn, g.remediation_ids, g.benchmark_id,
                                               analysis_date, g.due_date)
       IN  /\ conn' = db
           /\ store' = db
    /\ remediations_needing_issues' = Tail(remediations_needing_issues)
    /\ UNCHANGED <<pc, caller, columns, analysis_date, scan_id, rows_left, active_remediation_ids,
                   new_count, existing_count, sorted_dates, results, result, events, pre, hscan, seen, nonblank,
                   hbatch, scen>>

\* the closure step; the callee commits
Closure ==
    /\ UNCHANGED <<call, ingestion, lock, file>>
    /\ UNCHANGED hupload
    /\ pc = "issues"
    /\ remediations_needing_issues = <<>>
    /\ LET db == mark_remediations_resolved_if_not_in_list(conn, scan_id, active_remediation_ids)
       IN  /\ conn' = db
           /\ store' = db
    /\ pc' = "count"
    /\ UNCHANGED <<caller, columns, analysis_date, scan_id, rows_left, active_remediation_ids,
                   remediations_needing_issues, new_count, existing_count, sorted_dates,
                   results, result, events, pre, hscan, seen, nonblank, hbatch, scen>>

resolved_count(db, scan) ==
    Cardinality({r \in Ids(db.remediations) : db.remediations[r].resolved_in_scan = scan})

\* count the resolved remediations, commit, return the counts, close
Finish ==
    /\ UNCHANGED <<call, ingestion, lock, file>>
    /\ hupload' = IF caller = "single"
                  THEN [last |-> [date |-> hscan.date, rows |-> hupload.rows], rows |-> {},
                        again |-> hupload.last = [date |-> hscan.date, rows |-> hupload.rows]]
                  ELSE NoUpload
    /\ pc = "count"
    /\ LET ret == [NoResult EXCEPT !.status = "ok", !.new = new_count, !.existing = existing_count,
                                   !.resolved = resolved_count(conn, scan_id)]
       IN  /\ result' = ret
           /\ results' = IF caller = "batch"
                         THEN [results EXCEPT !.new = @ + ret.new,
                                              !.existing = @ + ret.existing,
                                              !.resolved = @ + ret.resolved]
                         ELSE results
    /\ store' = conn
    /\ pc' = IF caller = "batch" THEN "batch" ELSE "idle"
    /\ scen' = scen_finish
    /\ caller' = IF caller = "batch" THEN "batch" ELSE "none"
    /\ LocalsGone
    /\ UNCHANGED <<conn, columns, sorted_dates, events, pre, hscan, seen, nonblank, hbatch>>

\* a statement of the running ingestion fails in the storage layer (disk, lock, I/O)
StorageFailure ==
    /\ UNCHANGED <<call, ingestion, lock, file>>
    /\ pc \in {"rows", "issues", "count"}
    /\ events < MaxEvents
    /\ events' = events + 1
    /\ Raise(Error("sqlite3.OperationalError"))

\* process_multiple_scan_upload(file) up to the loop over the dates
\* the row that `for _, row in date_df.iterrows()` yields next, when the rows of the batch
\* file were drawn at the call
FileRows ==
    IF pc = "rows" /\ caller = "batch" /\ file # NoFile
    THEN LET ds == sorted(unique([k \in 1..Len(file.df) |-> file.df[k].Date]))
             rows == date_df(file.df, ds[Len(ds) - Len(sorted_dates)])
         IN  {rows[Len(rows) - rows_left + 1].row}
    ELSE {}

BatchUpload(DS, CS, RS) ==
    /\ UNCHANGED <<call, ingestion, lock>>
    /\ hupload' = NoUpload
    /\ pc = "idle"
    /\ \E df_columns \in {c \in CS : "Date" \in c} :
          columns' = [names |-> df_columns, map |-> "batch"]
    /\ \E len \in 0..(MaxEvents - events) : \E date_col \in [1..len -> DS] :
          LET ds == sorted(unique(date_col))
              todo == Cardinality({k \in 1..Len(ds) :
                                      ~ check_if_scan_exists(store, strptime(ds[k]))})
          IN  /\ events + len + todo <= MaxEvents
              /\ events' = events + len + todo
              /\ sorted_dates' = [k \in 1..Len(ds) |->
                                     [date |-> strptime(ds[k]), n |-> count_rows(date_col, ds[k])]]
              /\ hbatch' = [on |-> TRUE, dates |-> {strptime(date_col[i]) : i \in 1..len},
                            existing |-> {store.scans[i].scan_date : i \in Ids(store.scans)}]
              /\ IF RS = {}
                 THEN file' = NoFile
                 ELSE \E row_col \in [1..len -> RS] :
                         file' = [df |-> [k \in 1..len |-> [Date |-> date_col[k], row |-> row_col[k]]],
                                  before |-> store]
    /\ results' = NoResult
    /\ result' = NoResult
    /\ pc' = "batch"
    /\ caller' = "batch"
    /\ scen' = Off
    /\ pre' = store
    /\ hscan' = [id |-> NULL, date |-> NULL]
    /\ seen' = {}
    /\ nonblank' = 0
    /\ UNCHANGED <<store, conn, analysis_date, scan_id, rows_left, active_remediation_ids,
                   remediations_needing_issues, new_count, existing_count>>

\* process_multiple_scan_upload(file) with a file that has no Date column: df['Date'] raises
BatchKeyError(CS) ==
    /\ UNCHANGED <<call, ingestion, lock, file>>
    /\ hupload' = NoUpload
    /\ pc = "idle"
    /\ \E df_columns \in {c \in CS : "Date" \notin c} :
          columns' = [names |-> df_columns, map |-> "batch"]
    /\ result' = Error("KeyError: 'Date'")
    /\ hbatch' = NoBatch
    /\ scen' = Off
    /\ pre' = store
    /\ hscan' = [id |-> NULL, date |-> NULL]
    /\ seen' = {}
    /\ nonblank' = 0
    /\ UNCHANGED <<store, conn, pc, caller, analysis_date, scan_id, rows_left,
                   active_remediation_ids, remediations_needing_issues, new_count,
                   existing_count, sorted_dates, results, events>>

\* one iteration of `for date in sorted_dates` whose scan does not exist yet
BatchProcess ==
    /\ UNCHANGED <<call, ingestion, lock, file>>
    /\ hupload' = NoUpload
    /\ pc = "batch"
    /\ sorted_dates # <<>>
    /\ ~ check_if_scan_exists(store, Head(sorted_dates).date)
    /\ Begin(Head(sorted_dates).date, Head(sorted_dates).n, "batch", columns.names, columns.map)
    /\ sorted_dates' = Tail(sorted_dates)
    /\ UNCHANGED <<results, scen, events, hbatch>>

\* the same iteration when the file lacks a required column: process_upload_dataframe raises
BatchInvalid ==
    /\ UNCHANGED <<call, ingestion, lock, file>>
    /\ pc = "batch"
    /\ sorted_dates # <<>>
    /\ ~ check_if_scan_exists(store, Head(sorted_dates).date)
    /\ Invalid(columns.names, columns.map)
    /\ UNCHANGED <<events, hbatch>>

\* one iteration of `for date in sorted_dates` whose scan exists: log and continue
BatchSkip ==
    /\ UNCHANGED <<call, ingestion, lock, file>>
    /\ UNCHANGED hupload
    /\ pc = "batch"
    /\ sorted_dates # <<>>
    /\ check_if_scan_exists(store, Head(sorted_dates).date)
    /\ sorted_dates' = Tail(sorted_dates)
    /\ UNCHANGED <<store, conn, pc, caller, columns, analysis_date, scan_id, rows_left,
                   active_remediation_ids, remediations_needing_issues, new_count,
                   existing_count, results, result, events, pre, hscan, seen, nonblank, hbatch, scen>>

\* return results
BatchReturn ==
    /\ UNCHANGED <<call, ingestion, lock, file>>
    /\ hupload' = NoUpload
    /\ pc = "batch"
    /\ sorted_dates = <<>>
    /\ result' = [results EXCEPT !.status = "batch"]
    /\ results' = NoResult
    /\ pc' = "idle"
    /\ caller' = "none"
    /\ UNCHANGED <<store, conn, columns, analysis_date, scan_id, rows_left,
                   active_remediation_ids, remediations_needing_issues, new_count,
                   existing_count, sorted_dates, events, pre, hscan, seen, nonblank, hbatch, scen>>

\* schema.mark_issues_as_resolved_if_no_open_remediations called on its own connection;
\* no ingestion path calls it
MarkIssuesResolved(DS) ==
    /\ UNCHANGED <<call, ingestion, lock, file>>
    /\ hupload' = NoUpload
    /\ pc = "idle"
    /\ \E resolved_date \in DS :
          /\ store' = mark_issues_as_resolved_if_no_open_remediations(store, resolved_date)
          /\ store' # store
    /\ conn' = store'
    /\ result' = NoResult
    /\ scen' = Off
    /\ hbatch' = NoBatch
    /\ UNCHANGED <<pc, caller, columns, analysis_date, scan_id, rows_left, active_remediation_ids,
                   remediations_needing_issues, new_count, existing_count, sorted_dates,
                   results, events, pre, hscan, seen, nonblank>>

Next ==
    \/ SingleScanUpload(Dates, {SingleNames})
    \/ ProcessRow(Rows)
    \/ CreateIssue
    \/ Closure
    \/ Finish
    \/ StorageFailure
    \/ BatchUpload(DateCells, {BatchNames}, {})
    \/ BatchProcess
    \/ BatchSkip
    \/ BatchReturn
    \/ MarkIssuesResolved(Dates)

Spec == Init /\ [][Next]_vars

\* single-scan uploads with the dates and rows of the scenario
NextScenario ==
    \/ SingleScanUpload(ScenarioDates, {SingleNames})
    \/ ProcessRow(ScenarioRows)
    \/ CreateIssue
    \/ Closure
    \/ Finish
    \/ StorageFailure

SpecScenario == Init /\ [][NextScenario]_vars

\* the same program fed with files of every header in ColumnSets
NextColumns ==
    \/ SingleScanUpload(Dates, ColumnSets)
    \/ SingleInvalid(ColumnSets)
    \/ ProcessRow(ColumnRows)
    \/ CreateIssue
    \/ Closure
    \/ Finish
    \/ StorageFailure
    \/ BatchUpload(DateCells, ColumnSets, {})
    \/ BatchKeyError(ColumnSets)
    \/ BatchProcess
    \/ BatchInvalid
    \/ BatchSkip
    \/ BatchReturn
    \/ MarkIssuesResolved(Dates)

SpecColumns == Init /\ [][NextColumns]_vars

\* batch uploads of files whose rows are drawn at the call, dates in either spelling
NextBatch ==
    \/ BatchUpload(SpelledDateCells, {BatchNames}, BatchRows)
    \/ BatchProcess
    \/ ProcessRow(FileRows)
    \/ CreateIssue
    \/ Closure
    \/ Finish
    \/ BatchSkip
    \/ BatchReturn

SpecBatch == Init /\ [][NextBatch]_vars

\* the two severity functions called on their own
InitSeverity ==
    /\ store = EmptyDB
    /\ conn = EmptyDB
    /\ pc = "idle"
    /\ caller = "none"
    /\ columns = [names |-> {}, map |-> "default"]
    /\ analysis_date = NULL
    /\ scan_id = NULL
    /\ rows_left = 0
    /\ active_remediation_ids = {}
    /\ remediations_needing_issues = <<>>
    /\ new_count = 0
    /\ existing_count = 0
    /\ sorted_dates = <<>>
    /\ results = NoResult
    /\ result = NoResult
    /\ events = 0
    /\ pre = EmptyDB
    /\ hscan = [id |-> NULL, date |-> NULL]
    /\ seen = {}
    /\ nonblank = 0
    /\ hupload = NoUpload
    /\ hbatch = NoBatch
    /\ scen = Off
    /\ ingestion = <<>>
    /\ lock = 0
    /\ file = NoFile
    /\ \E fn \in {"get_cvss_range", "calculate_due_date"}, cvss \in CvssValues, date \in ScenarioDates :
          call = [fn |-> fn, cvss |-> cvss, analysis_date |-> date, state |-> "called", ret |-> NULL]

Frame ==
    UNCHANGED <<store, conn, pc, caller, columns, analysis_date, scan_id, rows_left,
                active_remediation_ids, remediations_needing_issues, new_count,
                existing_count, sorted_dates, results, result, events,
                pre, hscan, seen, nonblank, hupload, hbatch, scen, ingestion, lock, file>>

\* get_cvss_range(cvss) returns its band or raises
GetCvssRange ==
    /\ call.fn = "get_cvss_range"
    /\ call.state = "called"
    /\ call' = IF get_cvss_range_error(call.cvss) # ""
               THEN [call EXCEPT !.state = "raised", !.ret = get_cvss_range_error(call.cvss)]
               ELSE [call EXCEPT !.state = "returned", !.ret = get_cvss_range(call.cvss)]
    /\ Frame

\* calculate_due_date(cvss, analysis_date) returns the date or raises what get_cvss_range raises
CalculateDueDate ==
    /\ call.fn = "calculate_due_date"
    /\ call.state = "called"
    /\ call' = IF get_cvss_range_error(call.cvss) # ""
               THEN [call EXCEPT !.state = "raised", !.ret = get_cvss_range_error(call.cvss)]
               ELSE [call EXCEPT !.state = "returned",
                                 !.ret = calculate_due_date(call.cvss, call.analysis_date)]
    /\ Frame

NextSeverity ==
    \/ GetCvssRange
    \/ CalculateDueDate

SpecSeverity == InitSeverity /\ [][NextSeverity]_vars

----------------------------------------------------------------------------
(* Two uploads at the same time.  Each runs process_upload_dataframe in its    *)
(* own thread on its own connection.  sqlite3 opens a transaction at the       *)
(* first INSERT or UPDATE after a commit and holds the write lock of the file  *)
(* until the next commit; a write of the other connection waits for the lock   *)
(* and raises sqlite3.OperationalError when the wait exceeds the timeout.      *)

Procs == {1, 2}

\* rows of one file
MaxRows == 2

\* the files that are uploaded at the same time, each with its analysis date
Uploads == [date : Dates, rows : UNION {[1..n -> Rows] : n \in 0..MaxRows}]

\* the connection has no transaction open: it reads the committed database
NoTransaction == EmptyDB

\* an upload that has not executed its first statement
Started(upload) ==
    [pc |-> "start", upload |-> upload, conn |-> NoTransaction, scan_id |-> NULL,
     rows_left |-> <<>>, active_remediation_ids |-> {}, remediations_needing_issues |-> <<>>,
     new_count |-> 0, existing_count |-> 0, result |-> NoResult]

InitConcurrent ==
    /\ store = EmptyDB
    /\ conn = EmptyDB
    /\ pc = "idle"
    /\ caller = "none"
    /\ columns = [names |-> SingleNames, map |-> "default"]
    /\ analysis_date = NULL
    /\ scan_id = NULL
    /\ rows_left = 0
    /\ active_remediation_ids = {}
    /\ remediations_needing_issues = <<>>
    /\ new_count = 0
    /\ existing_count = 0
    /\ sorted_dates = <<>>
    /\ results = NoResult
    /\ result = NoResult
    /\ events = 0
    /\ pre = EmptyDB
    /\ hscan = [id |-> NULL, date |-> NULL]
    /\ seen = {}
    /\ nonblank = 0
    /\ hupload = NoUpload
    /\ hbatch = NoBatch
    /\ scen = Off
    /\ call = NoCall
    /\ ingestion \in [Procs -> {Started(u) : u \in Uploads}]
    /\ lock = 0
    /\ file = NoFile

\* what the statements of connection p read: its transaction if it has one, else the file
View(p) == IF lock = p THEN ingestion[p].conn ELSE store

\* the variables of the single upload, which is not running
FrameConcurrent ==
    UNCHANGED <<conn, pc, caller, columns, analysis_date, scan_id, rows_left,
                active_remediation_ids, remediations_needing_issues, new_count,
                existing_count, sorted_dates, results, result, events,
                pre, hscan, seen, nonblank, hupload, hbatch, scen, call, file>>

\* the exception leaves process_upload_dataframe of p: finally conn.close()
RaiseIn(p, error) ==
    /\ ingestion' = [ingestion EXCEPT ![p] =
                        [Started(@.upload) EXCEPT !.pc = "failed", !.result = error]]
    /\ lock' = IF lock = p THEN 0 ELSE lock
    /\ UNCHANGED store

\* get_or_create_scan on the connection of p: the INSERT opens the transaction
BeginIn(p) ==
    /\ ingestion[p].pc = "start"
    /\ lock = 0
    /\ LET me == ingestion[p]
           s == get_or_create_scan(store, me.upload.date)
       IN  ingestion' = [ingestion EXCEPT ![p] =
                            [me EXCEPT !.pc = IF me.upload.rows = <<>> THEN "issues" ELSE "rows",
                                       !.conn = s.db,
                                       !.scan_id = s.id,
                                       !.rows_left = me.upload.rows]]
    /\ lock' = p
    /\ UNCHANGED store
    /\ FrameConcurrent

\* one iteration of the row loop of p, inside the transaction
ProcessRowIn(p) ==
    /\ ingestion[p].pc = "rows"
    /\ LET me == ingestion[p]
           row == Head(me.rows_left)
       IN  IF row_raises(row)
           THEN RaiseIn(p, Error("ValueError: could not convert string to float"))
           ELSE LET st == process_row([db |-> me.conn, active |-> me.active_remediation_ids,
                                       needing |-> me.remediations_needing_issues,
                                       new |-> me.new_count, existing |-> me.existing_count],
                                      row, me.upload.date, me.scan_id)
                IN  /\ ingestion' = [ingestion EXCEPT ![p] =
                                        [me EXCEPT !.conn = st.db,
                                                   !.active_remediation_ids = st.active,
                                                   !.remediations_needing_issues = st.needing,
                                                   !.new_count = st.new,
                                                   !.existing_count = st.existing,
                                                   !.rows_left = Tail(@),
                                                   !.pc = IF Tail(me.rows_left) = <<>>
                                                          THEN "issues" ELSE "rows"]]
                    /\ UNCHANGED <<store, lock>>
    /\ FrameConcurrent

\* one call of create_issue_for_remediations by p; its commit ends the transaction
CreateIssueIn(p) ==
    /\ ingestion[p].pc = "issues"
    /\ ingestion[p].remediations_needing_issues # <<>>
    /\ lock \in {0, p}
    /\ LET me == ingestion[p]
           g == Head(me.remediations_needing_issues)
       IN  /\ store' = create_issue_for_remediations(View(p), g.remediation_ids, g.benchmark_id,
                                                     me.upload.date, g.due_date)
           /\ ingestion' = [ingestion EXCEPT ![p] =
                               [me EXCEPT !.conn = NoTransaction,
                                          !.remediations_needing_issues = Tail(@)]]
    /\ lock' = 0
    /\ FrameConcurrent

\* the closure step of p; its commit ends the transaction
ClosureIn(p) ==
    /\ ingestion[p].pc = "issues"
    /\ ingestion[p].remediations_needing_issues = <<>>
    /\ lock \in {0, p}
    /\ LET me == ingestion[p]
       IN  /\ store' = mark_remediations_resolved_if_not_in_list(View(p), me.scan_id,
                                                                 me.active_remediation_ids)
           /\ ingestion' = [ingestion EXCEPT ![p] = [me EXCEPT !.conn = NoTransaction, !.pc = "count"]]
    /\ lock' = 0
    /\ FrameConcurrent

\* p counts, commits, returns and closes
FinishIn(p) ==
    /\ ingestion[p].pc = "count"
    /\ LET me == ingestion[p]
       IN  ingestion' = [ingestion EXCEPT ![p] =
                            [Started(me.upload) EXCEPT
                                !.pc = "done",
                                !.result = [NoResult EXCEPT !.status = "ok",
                                                            !.new = me.new_count,
                                                            !.existing = me.existing_count,
                                                            !.resolved = resolved_count(View(p), me.scan_id)]]]
    /\ UNCHANGED <<store, lock>>
    /\ FrameConcurrent

\* a write of p has waited for the lock of the other connection for longer than the timeout
LockedOut(p) ==
    /\ ingestion[p].pc \in {"start", "issues"}
    /\ lock \notin {0, p}
    /\ RaiseIn(p, Error("sqlite3.OperationalError"))
    /\ FrameConcurrent

NextConcurrent ==
    \E p \in Procs :
        \/ BeginIn(p)
        \/ ProcessRowIn(p)
        \/ CreateIssueIn(p)
        \/ ClosureIn(p)
        \/ FinishIn(p)
        \/ LockedOut(p)

SpecConcurrent == InitConcurrent /\ [][NextConcurrent]_vars

----------------------------------------------------------------------------
(* Properties *)

\* process_upload_dataframe has just returned its counts ("batch" marks the return of
\* process_multiple_scan_upload)
Completed == result.status = "ok"

\* an ingestion has just raised
Failed == result.status = "error"

\* the open remediations of db that are linked to finding f of benchmark b
OpenRems(db, b, f) ==
    {r \in DOMAIN db.remediations :
        /\ db.remediations[r].state = "open"
        /\ db.remediations[r].benchmark_id = b
        /\ <<r, f>> \in db.remediation_findings}

\* the remediations of db linked to finding f of benchmark b, whatever their state
AllRems(db, b, f) ==
    {r \in DOMAIN db.remediations :
        /\ db.remediations[r].benchmark_id = b
        /\ <<r, f>> \in db.remediation_findings}

\* (benchmark id, finding id) pairs of db
Pairs(db) == {<<db.findings[f].benchmark_id, f>> : f \in DOMAIN db.findings}

\* (benchmark id, finding id) pairs of db that the ingestion has read in its rows
SeenPairs(db) ==
    {p \in Pairs(db) :
        \E e \in seen :
            /\ db.benchmark[p[1]].benchmark = e.key.benchmark
            /\ db.benchmark[p[1]].finding_id = e.key.finding_id
            /\ db.findings[p[2]].failure = e.failure}

\* the cvss cells of the rows in which the ingestion has read pair p
SeenCvss(db, p) ==
    {e.cvss : e \in {x \in seen :
                        /\ db.benchmark[p[1]].benchmark = x.key.benchmark
                        /\ db.benchmark[p[1]].finding_id = x.key.finding_id
                        /\ db.findings[p[2]].failure = x.failure}}

NewRems == {r \in DOMAIN store.remediations : r \notin DOMAIN pre.remediations}
NewIssues == {i \in DOMAIN store.issues : i \notin DOMAIN pre.issues}
IssuesOf(db, r) == {i \in DOMAIN db.issues : <<i, r>> \in db.issue_remediations}
RemsOf(db, i) == {r \in DOMAIN db.remediations : <<i, r>> \in db.issue_remediations}

\* C1: in the committed store and in the connection's view, no (Benchmark, Finding)
\* pair has more than one open Remediation linked to it, whatever was ingested.
C1_OneOpenRemediationPerPair ==
    \A db \in {store, conn} : \A p \in Pairs(db) : Cardinality(OpenRems(db, p[1], p[2])) <= 1

\* C1 witness: after a completed ingestion that read a failure more than once, a pair has
\* one open Remediation next to an earlier resolved one.
C1_Witness ==
    /\ Completed
    /\ result.existing > 0
    /\ \E p \in Pairs(store) :
          /\ Cardinality(OpenRems(store, p[1], p[2])) = 1
          /\ Cardinality(AllRems(store, p[1], p[2])) > 1

\* C2: after a completed ingestion, an Issue is resolved exactly when every Remediation
\* linked to it is resolved.
C2_IssueRemediationConsistency ==
    Completed =>
        \A i \in DOMAIN store.issues :
            (store.issues[i].status = "resolved")
                <=> (\A r \in RemsOf(store, i) : store.remediations[r].state = "resolved")

\* C3: a Remediation that was open before the ingestion and none of whose Findings was
\* read in the scan is resolved after the ingestion, with resolved_in_scan = that scan.
C3_ClosureCorrectness ==
    Completed =>
        \A r \in DOMAIN pre.remediations :
            (/\ pre.remediations[r].state = "open"
             /\ ~ \E p \in SeenPairs(store) : p[1] = pre.remediations[r].benchmark_id
                                               /\ <<r, p[2]>> \in pre.remediation_findings)
            => /\ store.remediations[r].state = "resolved"
               /\ store.remediations[r].resolved_in_scan = hscan.id

\* C4: after a failed ingestion the committed store is what it was when the ingestion began.
C4_FailureRollsBack == Failed => store = pre

\* C5: a pair that had an open Remediation before the ingestion and was read again keeps
\* that Remediation open, gets no new Remediation, has exactly that one open Remediation
\* afterwards, and every such pair is counted in `existing`.
C5_ContinuingPairs ==
    {p \in SeenPairs(store) : p[2] \in DOMAIN pre.findings /\ OpenRems(pre, p[1], p[2]) # {}}

C5_NoSecondRemediation ==
    Completed =>
        /\ \A p \in C5_ContinuingPairs :
              /\ OpenRems(store, p[1], p[2]) = OpenRems(pre, p[1], p[2])
              /\ AllRems(store, p[1], p[2]) = AllRems(pre, p[1], p[2])
              /\ Cardinality(OpenRems(store, p[1], p[2])) = 1
        /\ result.existing >= Cardinality(C5_ContinuingPairs)

C5_Witness ==
    /\ Completed
    /\ C5_ContinuingPairs # {}
    /\ hscan.id \notin DOMAIN pre.scans

\* C6: no step changes the due date of an existing Remediation, in the committed store
\* or in the connection's view, and a Remediation always has a due date.
C6_DueDateFixed ==
    [][ /\ \A r \in DOMAIN store.remediations :
              /\ r \in DOMAIN store'.remediations
              /\ store'.remediations[r].due_date = store.remediations[r].due_date
              /\ store.remediations[r].due_date # NULL
        /\ \A r \in DOMAIN conn.remediations \cap DOMAIN conn'.remediations :
              conn'.remediations[r].due_date = conn.remediations[r].due_date ]_vars

\* C6 witness: a completed ingestion read a pair whose Remediation stayed open, in a row
\* whose cvss gives another due date than the one the Remediation has.
C6_Witness ==
    /\ Completed
    /\ \E p \in C5_ContinuingPairs : \E r \in OpenRems(store, p[1], p[2]) : \E c \in SeenCvss(store, p) :
          calculate_due_date(c, hscan.date) # store.remediations[r].due_date
          /\ severity_mapping(get_cvss_range(c))
               # store.remediations[r].due_date - store.scans[store.remediations[r].first_seen_scan].scan_date

\* C7: after a completed ingestion every Remediation it created is linked to exactly one
\* Issue, that Issue was created by the same ingestion, two new Remediations share their
\* Issue exactly when they have the same Benchmark and the same due date, and no new
\* Issue is without a new Remediation.
C7_Grouping ==
    Completed =>
        /\ \A r \in NewRems :
              /\ Cardinality(IssuesOf(store, r)) = 1
              /\ IssuesOf(store, r) \subseteq NewIssues
        /\ \A r1, r2 \in NewRems :
              (IssuesOf(store, r1) = IssuesOf(store, r2))
                 <=> (/\ store.remediations[r1].benchmark_id = store.remediations[r2].benchmark_id
                      /\ store.remediations[r1].due_date = store.remediations[r2].due_date)
        /\ \A i \in NewIssues : RemsOf(store, i) # {} /\ RemsOf(store, i) \subseteq NewRems

\* C7 witness: one ingestion created three Remediations under one Benchmark, two with
\* the same due date and one with another.
C7_Witness ==
    /\ Completed
    /\ \E r1, r2, r3 \in NewRems :
          /\ r1 # r2
          /\ store.remediations[r1].benchmark_id = store.remediations[r2].benchmark_id
          /\ store.remediations[r1].benchmark_id = store.remediations[r3].benchmark_id
          /\ store.remediations[r1].due_date = store.remediations[r2].due_date
          /\ store.remediations[r1].due_date # store.remediations[r3].due_date
          /\ IssuesOf(store, r1) = IssuesOf(store, r2)
          /\ IssuesOf(store, r1) # IssuesOf(store, r3)

\* C8: no step takes a resolved Remediation or a resolved Issue back to open, in the
\* committed store or in the connection's view.
C8_ResolvedIsTerminal ==
    [][ /\ \A r \in DOMAIN store.remediations :
              store.remediations[r].state = "resolved"
                  => r \in DOMAIN store'.remediations /\ store'.remediations[r].state = "resolved"
        /\ \A i \in DOMAIN store.issues :
              store.issues[i].status = "resolved"
                  => i \in DOMAIN store'.issues /\ store'.issues[i].status = "resolved"
        /\ \A r \in DOMAIN conn.remediations \cap DOMAIN conn'.remediations :
              conn.remediations[r].state = "resolved" => conn'.remediations[r].state = "resolved"
        /\ \A i \in DOMAIN conn.issues \cap DOMAIN conn'.issues :
              conn.issues[i].status = "resolved" => conn'.issues[i].status = "resolved" ]_vars

\* the pairs read by the ingestion that had no open but a resolved Remediation before it
RecurringPairs ==
    {p \in SeenPairs(store) :
        /\ p[2] \in DOMAIN pre.findings
        /\ OpenRems(pre, p[1], p[2]) = {}
        /\ AllRems(pre, p[1], p[2]) # {}}

\* C8 witness: a Finding recurred in a completed ingestion while its earlier Remediation
\* and the Issue of that Remediation were resolved.
C8_Witness ==
    /\ Completed
    /\ \E p \in RecurringPairs : \E r \in AllRems(pre, p[1], p[2]) : \E i \in IssuesOf(pre, r) :
          /\ pre.issues[i].status = "resolved"
          /\ store.issues[i].status = "resolved"
          /\ store.remediations[r].state = "resolved"

\* C9: for every pair read by a completed ingestion that had only resolved Remediations
\* before it, the ingestion created one Remediation: open, first seen in this scan, due
\* on the due date of a row that reported it and this scan's date, linked to an Issue
\* created by this ingestion; the Remediations of the pair that existed before and their
\* Issues are as they were.
C9_RecurrenceCreatesNew ==
    Completed =>
        \A p \in RecurringPairs :
            /\ \E r \in NewRems :
                  /\ AllRems(store, p[1], p[2]) = AllRems(pre, p[1], p[2]) \cup {r}
                  /\ store.remediations[r].state = "open"
                  /\ store.remediations[r].first_seen_scan = hscan.id
                  /\ store.remediations[r].resolved_in_scan = NULL
                  /\ \E c \in SeenCvss(store, p) :
                        store.remediations[r].due_date
                            = hscan.date + severity_mapping(get_cvss_range(c))
                  /\ \E i \in NewIssues : IssuesOf(store, r) = {i}
            /\ \A r \in AllRems(pre, p[1], p[2]) :
                  /\ store.remediations[r] = pre.remediations[r]
                  /\ IssuesOf(store, r) = IssuesOf(pre, r)
                  /\ \A i \in IssuesOf(pre, r) :
                        /\ store.issues[i] = pre.issues[i]
                        /\ RemsOf(store, i) = RemsOf(pre, i)

\* C9 witness: a pair recurred in a completed ingestion of a later scan date.
C9_Witness ==
    /\ Completed
    /\ \E p \in RecurringPairs : \E r \in AllRems(pre, p[1], p[2]) :
          /\ pre.remediations[r].resolved_in_scan # NULL
          /\ pre.scans[pre.remediations[r].resolved_in_scan].scan_date < hscan.date

\* C10: in the scenario, after scan A (2024-01-01 = day 1) the store holds 1 Benchmark,
\* 2 Findings, 2 open Remediations due on day 16 and 1 open Issue linking both; after
\* scan B (2024-02-01 = day 32) the Remediation of host-2 is resolved with
\* resolved_in_scan = B, the Remediation of host-1 is open and the Issue is open.
C10_AfterA ==
    /\ Len(store.benchmark) = 1
    /\ Len(store.scans) = 1 /\ store.scans[1].scan_date = 1
    /\ Len(store.findings) = 2
    /\ store.findings[1].failure = <<"host-1">> /\ store.findings[2].failure = <<"host-2">>
    /\ Len(store.remediations) = 2
    /\ \A r \in {1, 2} : /\ store.remediations[r].state = "open"
                         /\ store.remediations[r].due_date = 16
                         /\ store.remediations[r].benchmark_id = 1
    /\ store.remediation_findings = {<<1, 1>>, <<2, 2>>}
    /\ Len(store.issues) = 1
    /\ store.issues[1].status = "open"
    /\ store.issue_remediations = {<<1, 1>>, <<1, 2>>}

C10_AfterB ==
    /\ Len(store.benchmark) = 1
    /\ Len(store.scans) = 2 /\ store.scans[2].scan_date = 32
    /\ Len(store.findings) = 2
    /\ Len(store.remediations) = 2
    /\ store.remediations[2].state = "resolved"
    /\ store.remediations[2].resolved_in_scan = 2
    /\ store.remediations[1].state = "open"
    /\ store.remediations[1].resolved_in_scan = NULL
    /\ store.remediations[1].due_date = 16
    /\ Len(store.issues) = 1
    /\ store.issues[1].status = "open"
    /\ store.issue_remediations = {<<1, 1>>, <<1, 2>>}

C10_ScenarioAB ==
    /\ (scen.on /\ scen.k = 1 /\ pc = "idle") => C10_AfterA
    /\ (scen.on /\ scen.k = 2 /\ pc = "idle") => C10_AfterB

C10_Witness == scen.on /\ scen.k = 2 /\ pc = "idle" /\ Completed

\* the run has followed scans A and B and has completed a scan C (2024-03-01 = day 61)
\* whose rows reported no failure for CIS-1.1
AfterScanC == scen.on /\ scen.k = 3 /\ pc = "idle" /\ Completed

\* scan C resolved the Remediation of host-1
C11_RemediationResolved == AfterScanC => store.remediations[1].state = "resolved"

\* C11: in the scenario, after scans A and B, a completed scan C that reports no failure
\* for CIS-1.1 leaves the Remediation of host-1 resolved and the Issue that links the
\* Remediations of host-1 and host-2 resolved.
C11_ScenarioC ==
    AfterScanC =>
        /\ store.remediations[1].state = "resolved"
        /\ store.issues[1].status = "resolved"

\* what the running ingestion will have committed when it completes: the issues still to
\* create and the closure applied to the connection's view
RECURSIVE IssuesCreated(_, _)
IssuesCreated(db, needing) ==
    IF needing = <<>> THEN db
    ELSE IssuesCreated(create_issue_for_remediations(db, Head(needing).remediation_ids,
                                                     Head(needing).benchmark_id, analysis_date,
                                                     Head(needing).due_date),
                       Tail(needing))

ScanOutcome ==
    mark_remediations_resolved_if_not_in_list(IssuesCreated(conn, remediations_needing_issues),
                                              scan_id, active_remediation_ids)

\* C12: a reader on its own connection sees the committed store; while an ingestion runs,
\* the committed store is the store as it was before the scan or the store as the whole
\* scan leaves it, never a store holding only a part of the scan's effects.
C12_ReaderSeesNoPartialScan ==
    /\ pc = "rows" => store = pre
    /\ pc = "issues" => store \in {pre, ScanOutcome}
    /\ pc = "count" => store \in {pre, conn}

\* the batch upload has just returned
BatchReturned == result.status = "batch" /\ hbatch.on

\* the dates that have a Scan in db
ScanDates(db) == {db.scans[i].scan_date : i \in DOMAIN db.scans}

\* C13: a batch upload all of whose dates had a Scan when it was called returns without
\* error, leaves every table as it was and returns new = existing = resolved = 0; and
\* a date whose Scan exists is never handed to process_upload_dataframe by the batch path.
C13_BatchSkipsExistingDates ==
    /\ (BatchReturned /\ hbatch.dates \subseteq hbatch.existing) =>
           /\ store = pre
           /\ hscan.id = NULL
           /\ result.new = 0 /\ result.existing = 0 /\ result.resolved = 0
    /\ (hbatch.on /\ caller = "batch" /\ pc \in {"rows", "issues", "count"}) =>
           hscan.date \notin ScanDates(pre)

\* C13 witness: a batch of two dates, both ingested before with Remediations, has returned.
C13_Witness ==
    /\ BatchReturned
    /\ Cardinality(hbatch.dates) = 2
    /\ hbatch.dates \subseteq hbatch.existing
    /\ store.remediations # <<>>

\* an ingestion is past get_or_create_scan: in its row loop, its issue loop or its closure
Running == pc \in {"rows", "issues", "count"}

\* C14: get_or_create_scan fails for an analysis date whose Scan exists, so no ingestion
\* runs its row loop or its later steps, or completes, for a date that had a Scan when
\* the ingestion began.
C14_ExistingScanIsAnError ==
    (Running \/ Completed) => hscan.date \notin ScanDates(pre)

\* every row of table t0 is a row of t1, under the same id
RowsKept(t0, t1) == Len(t0) <= Len(t1) /\ \A i \in DOMAIN t0 : t1[i] = t0[i]

\* every row of table t0 has a row in t1 under the same id
RowsPresent(t0, t1) == Len(t0) <= Len(t1)

\* a date of a batch upload has failed after an earlier date of the batch was ingested
BatchDateFailed ==
    /\ Failed
    /\ hbatch.on
    /\ \E d \in hbatch.dates \ hbatch.existing : d < hscan.date

\* after the failure nothing that the earlier dates committed is gone
C15_NothingRolledBack ==
    BatchDateFailed =>
        /\ RowsKept(pre.scans, store.scans)
        /\ RowsKept(pre.benchmark, store.benchmark)
        /\ RowsKept(pre.findings, store.findings)
        /\ RowsPresent(pre.remediations, store.remediations)
        /\ RowsPresent(pre.issues, store.issues)
        /\ pre.remediation_findings \subseteq store.remediation_findings
        /\ pre.issue_remediations \subseteq store.issue_remediations

\* C15: when a date of a batch upload fails, every record that the dates ingested earlier
\* in the batch left in the committed store is still there and is unchanged.
C15_EarlierDatesUnchanged ==
    BatchDateFailed =>
        /\ RowsKept(pre.scans, store.scans)
        /\ RowsKept(pre.benchmark, store.benchmark)
        /\ RowsKept(pre.findings, store.findings)
        /\ RowsKept(pre.remediations, store.remediations)
        /\ RowsKept(pre.issues, store.issues)
        /\ pre.remediation_findings \subseteq store.remediation_findings
        /\ pre.issue_remediations \subseteq store.issue_remediations

\* the required columns, under their names in the file, that the file lacks
Lacking == {map_of(columns.map)[col] : col \in SingleNames} \ columns.names

\* the set of the names listed in an error message
Named(missing) == {missing[k] : k \in DOMAIN missing}

\* C16: an ingestion whose input lacks a required column under the active column-name
\* mapping raises the error that names exactly the missing columns (each once), before
\* any row is read, and leaves the committed store, its Scan table included, as it was;
\* no ingestion runs its row loop or completes on such an input.
C16_MissingColumnsFailFast ==
    /\ (result.error = "ValueError: Missing required columns") =>
           /\ Named(result.missing) = Lacking
           /\ Len(result.missing) = Cardinality(Lacking)
           /\ result.missing # <<>>
           /\ store = pre
           /\ conn = store
           /\ seen = {}
    /\ (Running \/ Completed) => Lacking = {}

\* C16 witness: a batch file without its Failures and References columns was rejected
\* when the store already held a Scan, and the error names these two columns.
C16_Witness ==
    /\ result.error = "ValueError: Missing required columns"
    /\ result.missing = <<"Failures", "References">>
    /\ store.scans # <<>>

\* the empty cvss cells and the cells of non-numeric text
Malformed(cvss) == cvss.t \in {"nan", "str"}

\* after scan completion, the new Remediations of the pairs read only in rows of malformed
\* cvss are due 180 days after the scan's date
C17_LongestWindow ==
    Completed =>
        \A p \in SeenPairs(store) : \A r \in NewRems \cap AllRems(store, p[1], p[2]) :
            (\A c \in SeenCvss(store, p) : Malformed(c))
                => store.remediations[r].due_date = hscan.date + 180

\* C17: a row whose cvss is empty or not a number does not make the ingestion fail, and
\* the Remediations created for its findings are due 180 days after the scan's date.
C17_MalformedCvssDoesNotFail ==
    /\ result.error # "ValueError: could not convert string to float"
    /\ C17_LongestWindow

\* the number a cvss value stands for, in tenths; NULL when it is not a number
Parsed(cvss) == IF cvss.t \in {"float", "numstr"} THEN cvss.v ELSE NULL

\* the cvss values that are numbers
Numeric(cvss) == cvss.t \in {"float", "numstr"}

\* the absent values: the empty cell, None and the empty string
Absent(cvss) == cvss.t \in {"nan", "none", "empty"}

\* the band table of the claim
SeverityBand(cvss) ==
    IF Numeric(cvss) /\ Parsed(cvss) >= 90 THEN "Critical"
    ELSE IF Numeric(cvss) /\ Parsed(cvss) >= 70 THEN "High"
    ELSE IF Numeric(cvss) /\ Parsed(cvss) >= 40 THEN "Medium"
    ELSE IF Numeric(cvss) /\ Parsed(cvss) > 0 THEN "Low"
    ELSE IF Numeric(cvss) \/ Absent(cvss) THEN "Info"
    ELSE "Unknown"

\* C18: get_cvss_range returns Critical for cvss >= 9.0, High for 7.0 <= cvss < 9.0,
\* Medium for 4.0 <= cvss < 7.0, Low for 0 < cvss < 4.0, Info for 0 and for an absent
\* value, and Unknown (not Info) for a non-empty value that is not a number.
C18_SeverityBand ==
    (call.fn = "get_cvss_range" /\ call.state # "called") =>
        /\ call.state = "returned"
        /\ call.ret = SeverityBand(call.cvss)
        /\ call.cvss = Text => call.ret = "Unknown" /\ call.ret # "Info"

\* C18 witness: the call returned Critical for 9.0, the lowest Critical value.
C18_Witness ==
    /\ call.fn = "get_cvss_range"
    /\ call.state = "returned"
    /\ call.cvss = Num(90)
    /\ call.ret = "Critical"

\* the window table of the claim, in days
Window(band) ==
    CASE band = "Critical" -> 15
      [] band = "High" -> 30
      [] band = "Medium" -> 90
      [] band = "Low" -> 180
      [] band = "Info" -> 180
      [] band = "Unknown" -> 180

\* C19: calculate_due_date never raises, whatever the cvss value (empty and non-numeric
\* included), and returns the analysis date plus the window of the band of the cvss:
\* Critical 15 days, High 30, Medium 90, Low 180, Info 180, Unknown 180.
C19_DueDate ==
    (call.fn = "calculate_due_date" /\ call.state # "called") =>
        /\ call.state = "returned"
        /\ call.ret = call.analysis_date + Window(SeverityBand(call.cvss))

\* C19 witness: the call returned for non-numeric text, 180 days after the analysis date.
C19_Witness ==
    /\ call.fn = "calculate_due_date"
    /\ call.state = "returned"
    /\ call.cvss = Text
    /\ call.ret = call.analysis_date + 180

\* the Benchmark rows of db that have the key (benchmark, finding_id)
BenchmarksOf(db, key) ==
    {i \in DOMAIN db.benchmark :
        /\ db.benchmark[i].benchmark = key.benchmark
        /\ db.benchmark[i].finding_id = key.finding_id}

\* no two Benchmark rows of db have the same (benchmark, finding_id)
OneBenchmarkPerKey(db) ==
    \A i, j \in DOMAIN db.benchmark :
        (/\ db.benchmark[i].benchmark = db.benchmark[j].benchmark
         /\ db.benchmark[i].finding_id = db.benchmark[j].finding_id) => i = j

\* C20: whatever is ingested, there is at most one Benchmark per (benchmark, finding_id)
\* in the committed store and in the connection's view, every row read under a key has
\* been given the one Benchmark of that key, and no step changes a Benchmark that exists:
\* its id and its attributes stay as they were at first sighting.
C20_BenchmarkGetOrCreate ==
    [][ /\ OneBenchmarkPerKey(store') /\ OneBenchmarkPerKey(conn')
        /\ \A e \in seen' : Cardinality(BenchmarksOf(conn', e.key)) = 1
        /\ \A i \in DOMAIN store.benchmark :
              i \in DOMAIN store'.benchmark /\ store'.benchmark[i] = store.benchmark[i]
        /\ \A i \in DOMAIN conn.benchmark \cap DOMAIN conn'.benchmark :
              conn'.benchmark[i] = conn.benchmark[i] ]_vars

\* C20 witness: a completed ingestion read a row under the key of a Benchmark that an
\* earlier ingestion created, with a level and a cvss other than the stored ones.
C20_Witness ==
    /\ Completed
    /\ \E e \in seen : \E i \in BenchmarksOf(pre, e.key) :
          /\ stored_cvss(e.cvss) # pre.benchmark[i].cvss
          /\ e.level # pre.benchmark[i].level
          /\ store.benchmark[i] = pre.benchmark[i]

\* the text has no blank or line break at either end
Trimmed(s) == s = <<>> \/ (Head(s) \notin Whitespace /\ s[Len(s)] \notin Whitespace)

\* the Findings of db stored under a Benchmark of the key with the failure text
FindingsOf(db, key, failure) ==
    {f \in DOMAIN db.findings :
        /\ db.findings[f].benchmark_id \in BenchmarksOf(db, key)
        /\ db.findings[f].failure = failure}

\* C21: in the committed store and in the connection's view no two Findings have the same
\* Benchmark and failure text, every stored failure text is trimmed and is not empty, and
\* the entries read under one Benchmark that are equal after trimming have one Finding,
\* the one that an earlier scan stored for that text if there was one.
C21_FindingsDeduplicated ==
    /\ \A db \in {store, conn} :
          /\ \A f, g \in DOMAIN db.findings :
                (/\ db.findings[f].benchmark_id = db.findings[g].benchmark_id
                 /\ db.findings[f].failure = db.findings[g].failure) => f = g
          /\ \A f \in DOMAIN db.findings :
                db.findings[f].failure # <<>> /\ Trimmed(db.findings[f].failure)
    /\ \A e \in seen :
          /\ Cardinality(FindingsOf(conn, e.key, e.failure)) = 1
          /\ FindingsOf(pre, e.key, e.failure) \subseteq FindingsOf(conn, e.key, e.failure)

\* C21 witness: a completed ingestion read, in one row, "host-1" with and without blanks
\* around it and a blank entry, under a Benchmark for which an earlier scan had stored the
\* Finding "host-1"; the store has that one Finding for the Benchmark.
C21_Witness ==
    /\ Completed
    /\ \E e \in seen :
          /\ e.key = B2 /\ e.cvss = NaN /\ e.failure = <<"host-1">>
          /\ FindingsOf(pre, B2, <<"host-1">>) # {}
          /\ FindingsOf(store, B2, <<"host-1">>) = FindingsOf(pre, B2, <<"host-1">>)
          /\ \A f \in DOMAIN store.findings :
                store.findings[f].benchmark_id \in BenchmarksOf(store, B2)
                    => f \in FindingsOf(store, B2, <<"host-1">>)

\* no two Scan rows of db have the same scan_date
OneScanPerDate(db) ==
    \A i, j \in DOMAIN db.scans : db.scans[i].scan_date = db.scans[j].scan_date => i = j

\* C22: whatever single-scan and batch ingestions run, the committed store and the
\* connection's view hold at most one Scan per analysis date, and no step changes or
\* removes a Scan that exists.
C22_OneScanPerDate ==
    [][ /\ OneScanPerDate(store') /\ OneScanPerDate(conn')
        /\ RowsKept(store.scans, store'.scans)
        /\ \A i \in DOMAIN conn.scans \cap DOMAIN conn'.scans : conn'.scans[i] = conn.scans[i] ]_vars

\* C22 witness: a single-scan ingestion has completed for a date whose Scan an earlier
\* ingestion created, next to the Scan of another date; the Scans are the ones there were.
C22_Witness ==
    /\ Completed
    /\ hscan.date \in ScanDates(pre)
    /\ Len(pre.scans) = 2
    /\ store.scans = pre.scans

\* the Remediations that were open before the ingestion and that it has observed again
ObservedAgain ==
    {r \in DOMAIN pre.remediations :
        \E p \in C5_ContinuingPairs : r \in OpenRems(pre, p[1], p[2])}

\* C23: a Remediation that was open before the scan and is observed again has, while the
\* ingestion runs and after it, the Issue links it had before, in the committed store and
\* in the connection's view, and is linked to no Issue created by the scan; a completed
\* scan every failure of which continues an already-open Remediation has created no
\* Remediation and no Issue and returns new = 0.
C23_NoNewIssueForExisting ==
    /\ (Running \/ Completed) =>
          \A r \in ObservedAgain :
              /\ IssuesOf(store, r) = IssuesOf(pre, r)
              /\ IssuesOf(conn, r) = IssuesOf(pre, r)
              /\ IssuesOf(store, r) \cap NewIssues = {}
    /\ (Completed /\ SeenPairs(store) = C5_ContinuingPairs) =>
          /\ NewRems = {}
          /\ NewIssues = {}
          /\ store.issue_remediations = pre.issue_remediations
          /\ result.new = 0

\* C23 witness: a completed scan of a new date read failures, each of them continuing a
\* Remediation that was open and linked to an Issue, and created nothing.
C23_Witness ==
    /\ Completed
    /\ hscan.date \notin ScanDates(pre)
    /\ seen # {}
    /\ SeenPairs(store) = C5_ContinuingPairs
    /\ \A r \in ObservedAgain : IssuesOf(pre, r) # {}
    /\ ObservedAgain # {}
    /\ result.existing > 0
    /\ NewRems = {} /\ NewIssues = {}

\* the cvss cells of the rows in which the running ingestion has read a Finding linked to r
CvssOf(db, r) ==
    UNION {SeenCvss(db, p) : p \in {q \in SeenPairs(db) : <<r, q[2]>> \in db.remediation_findings}}

\* C24: a Remediation that a step of a scan creates in the connection's view is open, has
\* the scan as first_seen_scan, has no resolved_in_scan, and is due on the scan's analysis
\* date plus the window of the band of the cvss of the row being processed; when the scan
\* has completed, the Remediations it created are in the committed store with that scan as
\* first_seen_scan and with a due date computed from the scan's date and the cvss of a row
\* that reported them.
C24_NewRemediation ==
    [][ /\ \A r \in DOMAIN conn'.remediations \ DOMAIN conn.remediations :
              /\ pc = "rows"
              /\ conn'.remediations[r].state = "open"
              /\ conn'.remediations[r].first_seen_scan = scan_id
              /\ conn'.remediations[r].first_seen_scan # NULL
              /\ conn'.scans[scan_id].scan_date = analysis_date
              /\ conn'.remediations[r].resolved_in_scan = NULL
              /\ (CvssOf(conn, r))' # {}
              /\ \A c \in (CvssOf(conn, r))' :
                    conn'.remediations[r].due_date = analysis_date + Window(SeverityBand(c))
        /\ Completed' =>
              \A r \in NewRems' :
                  /\ store'.remediations[r].state = "open"
                  /\ store'.remediations[r].first_seen_scan = hscan'.id
                  /\ store'.remediations[r].resolved_in_scan = NULL
                  /\ \E c \in (CvssOf(store, r))' :
                        store'.remediations[r].due_date = hscan'.date + Window(SeverityBand(c)) ]_vars

\* C24 witness: a completed scan of the second date created two Remediations with
\* different due dates, next to Remediations of an earlier scan.
C24_Witness ==
    /\ Completed
    /\ hscan.date = 32
    /\ pre.remediations # <<>>
    /\ \E r1, r2 \in NewRems :
          /\ store.remediations[r1].due_date = 32 + 15
          /\ store.remediations[r2].due_date = 32 + 90

\* the Remediations of db that are open and linked to Issue i
OpenRemsOf(db, i) == {r \in RemsOf(db, i) : db.remediations[r].state = "open"}

\* the step is a call of mark_issues_as_resolved_if_no_open_remediations that changed the
\* store: no other step changes the committed store while no upload is running
ClosurePass == pc = "idle" /\ pc' = "idle" /\ store' # store

\* C27: the pass resolves, with resolved_at = the date it was given, exactly the open
\* Issues none of whose linked Remediations is open; an Issue with an open Remediation
\* stays open, a resolved Issue keeps its row (resolved_at included), and the
\* Remediations and every other table are as they were.
C27_IssueClosurePass ==
    [][ ClosurePass =>
          /\ \E resolved_date \in Dates :
                \A i \in DOMAIN store.issues :
                    IF store.issues[i].status = "open" /\ OpenRemsOf(store, i) = {}
                    THEN store'.issues[i] =
                             [store.issues[i] EXCEPT !.status = "resolved", !.resolved_at = resolved_date]
                    ELSE store'.issues[i] = store.issues[i]
          /\ DOMAIN store'.issues = DOMAIN store.issues
          /\ store'.remediations = store.remediations
          /\ store' = [store EXCEPT !.issues = store'.issues]
          /\ conn' = store' ]_vars

\* C27 witness: after passes with different dates two Issues are resolved, each with the
\* date of the pass that found it without an open Remediation, and a third Issue, which
\* has an open Remediation, is open.
C27_Witness ==
    /\ pc = "idle"
    /\ \E i, j, k \in DOMAIN store.issues :
          /\ store.issues[i].status = "resolved" /\ store.issues[i].resolved_at = 1
          /\ store.issues[j].status = "resolved" /\ store.issues[j].resolved_at = 32
          /\ store.issues[k].status = "open" /\ OpenRemsOf(store, k) # {}

\* the failure texts that the rows of the input report under a Benchmark key: the entries
\* of the failures fields that are not empty, trimmed, without the blank ones
ReportedTexts(RS, key) ==
    UNION {{strip(split(row.failures.s, "LF")[k]) : k \in DOMAIN split(row.failures.s, "LF")} \ {<<>>} :
              row \in {x \in RS : x.key = key /\ ~ x.failures.nan}}

\* the Benchmark key of Finding f of db
KeyOf(db, f) ==
    [benchmark |-> db.benchmark[db.findings[f].benchmark_id].benchmark,
     finding_id |-> db.benchmark[db.findings[f].benchmark_id].finding_id]

\* C26: a row whose failures field is empty, or holds only blank entries, contributes no
\* Finding (and so no Remediation, no Issue and no member of the active set): every
\* Finding of the committed store and of the connection's view has a text that a row
\* reported in a failures field that was not empty, and every Remediation is linked to
\* such a Finding.
C26_BlankRowsContributeNothing ==
    \A db \in {store, conn} :
        /\ \A f \in DOMAIN db.findings : db.findings[f].failure \in ReportedTexts(Rows, KeyOf(db, f))
        /\ \A r \in DOMAIN db.remediations :
              \E f \in DOMAIN db.findings :
                  /\ <<r, f>> \in db.remediation_findings
                  /\ db.findings[f].failure \in ReportedTexts(Rows, KeyOf(db, f))

\* the Remediations that the ingestion took from open to resolved
Transitioned ==
    {r \in DOMAIN pre.remediations :
        pre.remediations[r].state = "open" /\ store.remediations[r].state = "resolved"}

\* C28: the resolved count that a completed ingestion returns is the number of
\* Remediations that were open before it and are resolved after it.
C28_ResolvedCount == Completed => result.resolved = Cardinality(Transitioned)

\* the same for the scans that read a failure and whose date had no Scan before
C28_ResolvedCountOfFirstIngestion ==
    (Completed /\ seen # {} /\ hscan.date \notin ScanDates(pre))
        => result.resolved = Cardinality(Transitioned)

\* C29: in the committed store and in the connection's view every resolved Remediation
\* has a resolved_in_scan, and the date of that Scan is not earlier than the date of its
\* first_seen_scan, whatever the order of the ingestions.
C29_ResolvedInScanSetAndLater ==
    \A db \in {store, conn} : \A r \in DOMAIN db.remediations :
        db.remediations[r].state = "resolved" =>
            /\ db.remediations[r].resolved_in_scan # NULL
            /\ db.scans[db.remediations[r].resolved_in_scan].scan_date
                   >= db.scans[db.remediations[r].first_seen_scan].scan_date

\* the part of C29 about the dates alone, for the Remediations that have a resolved_in_scan
C29_ResolvedNotBeforeFirstSeen ==
    \A db \in {store, conn} : \A r \in DOMAIN db.remediations :
        db.remediations[r].resolved_in_scan # NULL =>
            db.scans[db.remediations[r].resolved_in_scan].scan_date
                >= db.scans[db.remediations[r].first_seen_scan].scan_date

\* C30: after an ingestion that failed, for a date that had no Scan when it began, the
\* committed store has no Scan for that date, so check_if_scan_exists is false for it
\* and a later batch upload hands the date to process_upload_dataframe.
C30_FailedDateHasNoScan ==
    (Failed /\ hscan.date # NULL /\ hscan.date \notin ScanDates(pre))
        => ~ check_if_scan_exists(store, hscan.date)

\* both uploads have returned their counts
BothDone == \A p \in Procs : ingestion[p].pc = "done"

\* process_upload_dataframe in the middle of its work: past its first statement, before
\* its return
InProgress(p) == ingestion[p].pc \in {"rows", "issues", "count"}

RECURSIVE RowsProcessed(_, _, _, _)
RowsProcessed(st, rows, date, scan) ==
    IF rows = <<>> THEN st
    ELSE RowsProcessed(process_row(st, Head(rows), date, scan), Tail(rows), date, scan)

RECURSIVE IssuesCreatedAt(_, _, _)
IssuesCreatedAt(db, needing, created_at) ==
    IF needing = <<>> THEN db
    ELSE IssuesCreatedAt(create_issue_for_remediations(db, Head(needing).remediation_ids,
                                                       Head(needing).benchmark_id, created_at,
                                                       Head(needing).due_date),
                         Tail(needing), created_at)

\* the store that one ingestion of the upload leaves when it runs from its start to its
\* final commit with no step of another ingestion in between
Alone(db, upload) ==
    LET s == get_or_create_scan(db, upload.date)
        st == RowsProcessed([db |-> s.db, active |-> {}, needing |-> <<>>, new |-> 0, existing |-> 0],
                            upload.rows, upload.date, s.id)
    IN  mark_remediations_resolved_if_not_in_list(IssuesCreatedAt(st.db, st.needing, upload.date),
                                                  s.id, st.active)

\* the date of Scan id of db, NULL for no Scan
DateOf(db, id) == IF id = NULL THEN NULL ELSE db.scans[id].scan_date

\* a Remediation of db without its ids: its Benchmark, the texts of its Findings, its
\* state, its due date and the dates of its Scans
Facts(db, r) ==
    [key |-> [benchmark |-> db.benchmark[db.remediations[r].benchmark_id].benchmark,
              finding_id |-> db.benchmark[db.remediations[r].benchmark_id].finding_id],
     failures |-> {db.findings[f].failure :
                      f \in {g \in DOMAIN db.findings : <<r, g>> \in db.remediation_findings}},
     state |-> db.remediations[r].state,
     due_date |-> db.remediations[r].due_date,
     first_seen |-> DateOf(db, db.remediations[r].first_seen_scan),
     resolved_in |-> DateOf(db, db.remediations[r].resolved_in_scan)]

\* the content of db without its ids: the dates of the Scans, the Benchmarks, the
\* Remediations, and the Issues with the Remediations each one links
Content(db) ==
    [scans |-> ScanDates(db),
     benchmark |-> {db.benchmark[b] : b \in DOMAIN db.benchmark},
     remediations |-> {Facts(db, r) : r \in DOMAIN db.remediations},
     issues |-> {[issue |-> db.issues[i], remediations |-> {Facts(db, r) : r \in RemsOf(db, i)}] :
                    i \in DOMAIN db.issues}]

\* the contents that the two uploads leave when they run one after the other
SerialContents ==
    {Content(Alone(Alone(EmptyDB, ingestion[p].upload), ingestion[q].upload)) :
        <<p, q>> \in {<<1, 2>>, <<2, 1>>}}

\* when both uploads have completed, the store has the content of a serial order
C25_SerialOutcome == BothDone => Content(store) \in SerialContents

\* C25: of two ingestions started at the same time, one is never in the middle of its
\* work while the other is in the middle of its own, and when both have completed the
\* content of the store is the one that running them one after the other, in one of the
\* two orders, leaves.
C25_NoInterleaving ==
    /\ ~ (InProgress(1) /\ InProgress(2))
    /\ C25_SerialOutcome

\* C31: after a completed ingestion every Remediation of the store is linked to exactly
\* one Issue, that Issue has the Benchmark and the due date of the Remediation, and every
\* Issue links at least one Remediation.
C31_OneIssuePerRemediation ==
    Completed =>
        /\ \A r \in DOMAIN store.remediations :
              /\ Cardinality(IssuesOf(store, r)) = 1
              /\ \A i \in IssuesOf(store, r) :
                    /\ store.issues[i].benchmark_id = store.remediations[r].benchmark_id
                    /\ store.issues[i].due_date = store.remediations[r].due_date
        /\ \A i \in DOMAIN store.issues : RemsOf(store, i) # {}

\* the same for the Remediations and Issues that the completed ingestion created
C31_OneIssuePerNewRemediation ==
    Completed =>
        /\ \A r \in NewRems :
              /\ Cardinality(IssuesOf(store, r)) = 1
              /\ \A i \in IssuesOf(store, r) :
                    /\ store.issues[i].benchmark_id = store.remediations[r].benchmark_id
                    /\ store.issues[i].due_date = store.remediations[r].due_date
        /\ \A i \in NewIssues : RemsOf(store, i) # {}

\* the Findings linked to Remediation r of db
FindingsLinked(db, r) == {f \in DOMAIN db.findings : <<r, f>> \in db.remediation_findings}

\* C32: in the committed store and in the connection's view every Remediation is linked
\* to exactly one Finding, every link of a Remediation leads to a Finding of the
\* Benchmark of the Remediation, and no step changes the links of a Remediation that
\* exists.
C32_OneFindingPerRemediation ==
    [][ /\ \A db \in {store', conn'} : \A r \in DOMAIN db.remediations :
              /\ Cardinality(FindingsLinked(db, r)) = 1
              /\ \A l \in db.remediation_findings :
                    l[1] = r => /\ l[2] \in DOMAIN db.findings
                                /\ db.findings[l[2]].benchmark_id = db.remediations[r].benchmark_id
        /\ \A r \in DOMAIN store.remediations :
              {l \in store'.remediation_findings : l[1] = r}
                  = {l \in store.remediation_findings : l[1] = r}
        /\ \A r \in DOMAIN conn.remediations \cap DOMAIN conn'.remediations :
              {l \in conn'.remediation_findings : l[1] = r}
                  = {l \in conn.remediation_findings : l[1] = r} ]_vars

\* C32 witness: a completed ingestion read again the Finding of a Remediation that an
\* earlier scan had created and resolved, and created a second Remediation for it; each
\* of the two has its one link.
C32_Witness ==
    /\ Completed
    /\ \E p \in RecurringPairs : \E r \in AllRems(pre, p[1], p[2]) : \E q \in NewRems :
          /\ FindingsLinked(store, r) = {p[2]}
          /\ FindingsLinked(store, q) = {p[2]}
          /\ store.remediations[r].state = "resolved"

\* C33: in the committed store and in the connection's view an open Remediation has no
\* resolved_in_scan, and no step changes the row of a resolved Remediation: its state,
\* its resolved_in_scan, its first_seen_scan and its due date stay as they are.
C33_ResolvedRowIsFrozen ==
    [][ /\ \A db \in {store', conn'} : \A r \in DOMAIN db.remediations :
              db.remediations[r].state = "open" => db.remediations[r].resolved_in_scan = NULL
        /\ \A r \in DOMAIN store.remediations :
              store.remediations[r].state = "resolved" =>
                  /\ r \in DOMAIN store'.remediations
                  /\ store'.remediations[r] = store.remediations[r]
        /\ \A r \in DOMAIN conn.remediations \cap DOMAIN conn'.remediations :
              conn.remediations[r].state = "resolved" =>
                  conn'.remediations[r] = conn.remediations[r] ]_vars

\* C33 witness: a completed ingestion of another date resolved a Remediation while the
\* store held a Remediation that an earlier scan had resolved; that one is as it was.
C33_Witness ==
    /\ Completed
    /\ Transitioned # {}
    /\ \E r \in DOMAIN pre.remediations :
          /\ pre.remediations[r].state = "resolved"
          /\ pre.remediations[r].resolved_in_scan \notin {NULL, hscan.id}
          /\ store.remediations[r] = pre.remediations[r]

\* the returned new count is the number of Remediations that the completed ingestion created
C34_NewCount == Completed => result.new = Cardinality(NewRems)

\* C34: for a completed ingestion, the returned new count is the number of Remediations
\* it created, and new + existing is the number of non-blank failure entries in the rows
\* of the scan, an entry that is listed again being counted again.
C34_Counts ==
    Completed =>
        /\ result.new = Cardinality(NewRems)
        /\ result.new + result.existing = nonblank

\* the ingestion that has just completed was a single-scan upload of the rows and the
\* date of the single-scan upload completed just before it
Repeated == Completed /\ hupload.again

\* C35: a single-scan ingestion of the rows and the analysis date of the ingestion
\* completed just before it leaves the store as it was (Scans, Benchmarks, Findings,
\* Remediations with their states, due dates and Scans, Issues, and the links) and
\* returns new = 0.
C35_RepeatedUploadChangesNothing ==
    Repeated =>
        /\ store = pre
        /\ result.new = 0

\* C35 witness: the repeated upload read failures, while the store held open and resolved
\* Remediations.
C35_Witness ==
    /\ Repeated
    /\ result.existing > 0
    /\ \E r, q \in DOMAIN store.remediations :
          store.remediations[r].state = "open" /\ store.remediations[q].state = "resolved"

----------------------------------------------------------------------------
(* C36: a batch upload against single-scan uploads date by date *)

\* what one single-scan upload of rows for date leaves and returns when it runs on db
SingleScan(db, date, rows) ==
    LET s == get_or_create_scan(db, date)
        st == RowsProcessed([db |-> s.db, active |-> {}, needing |-> <<>>, new |-> 0, existing |-> 0],
                            rows, date, s.id)
        done == mark_remediations_resolved_if_not_in_list(IssuesCreatedAt(st.db, st.needing, date),
                                                          s.id, st.active)
    IN  [db |-> done, new |-> st.new, existing |-> st.existing,
         resolved |-> resolved_count(done, s.id)]

\* the rows of df whose Date cell is the day date, however it is spelled, in file order
RowsOfDay(df, date) ==
    LET sel == SelectSeq(df, LAMBDA r : strptime(r.Date) = date)
    IN  [k \in 1..Len(sel) |-> sel[k].row]

\* single-scan uploads of the rows of each day of days in ascending order of the days,
\* from acc on: the store they leave and the sums of what they return
RECURSIVE SingleScans(_, _, _)
SingleScans(acc, days, df) ==
    IF days = {} THEN acc
    ELSE LET d == CHOOSE x \in days : \A y \in days : x <= y
             one == SingleScan(acc.db, d, RowsOfDay(df, d))
         IN  SingleScans([db |-> one.db, new |-> acc.new + one.new,
                          existing |-> acc.existing + one.existing,
                          resolved |-> acc.resolved + one.resolved],
                         days \ {d}, df)

\* a batch upload whose rows are on record has returned, and none of its dates had a Scan
\* when it was called
BatchOfNewDates ==
    /\ BatchReturned
    /\ file # NoFile
    /\ hbatch.dates \cap hbatch.existing = {}

BatchAsSingleScans ==
    LET ref == SingleScans([db |-> file.before, new |-> 0, existing |-> 0, resolved |-> 0],
                           hbatch.dates, file.df)
    IN  /\ store = ref.db
        /\ result.new = ref.new
        /\ result.existing = ref.existing
        /\ result.resolved = ref.resolved

\* every day of the file is spelled in one way throughout the Date column
SpelledAlike ==
    \A i, j \in 1..Len(file.df) :
        strptime(file.df[i].Date) = strptime(file.df[j].Date) => file.df[i].Date = file.df[j].Date

\* C36: when a batch upload of dates none of which had a Scan returns, whatever the order
\* of the rows of the file, the store is the one that single-scan uploads of the rows of
\* each date leave when they run in ascending order of the dates, and the counts returned
\* are the sums of the counts of those uploads
C36_BatchEqualsSingleScans ==
    BatchOfNewDates => BatchAsSingleScans

\* the same for the files that spell each of their days in one way
C36_BatchOfDatesSpelledAlike ==
    (BatchOfNewDates /\ SpelledAlike) => BatchAsSingleScans

\* such a batch has returned: two dates, the later one first in the file, failures
\* of the first date resolved by the second
C36_Witness ==
    /\ BatchOfNewDates
    /\ SpelledAlike
    /\ Cardinality(hbatch.dates) = 2
    /\ Len(file.df) >= 2
    /\ strptime(file.df[1].Date) > strptime(file.df[2].Date)
    /\ result.new > 0
    /\ result.resolved > 0

====
